---- MODULE Spec2Model ----
(***************************************************************************)
(* The get-or-create handlers of pbapi (UserIdentityHandler, ShopHandler,  *)
(* SfsMdReceiptHandler) over the generic table store.  A request is a      *)
(* process p: a Start action picks the operation and its arguments, and    *)
(* every later step is one store call of the handler, in the order of the  *)
(* code.  The sequential specifications run one request at a time; the     *)
(* concurrent one lets two requests interleave between store calls.        *)
(***************************************************************************)
EXTENDS Integers, Sequences, FiniteSets, TLC

\* Every field name and enumerated value of the rows, objects and requests below, with
\* what it belongs to. Records and sets of names are written in this (alphabetical) order.
Vocabulary ==
    [a1 |-> "address", a2 |-> "address", add_shop |-> "pc",
     address |-> "Shop", api |-> "route module", approved |-> "ItemBarcodeStatus", args |-> "call",
     c1 |-> "company_id", c2 |-> "company_id", canonical |-> "args",
     company_id |-> "Shop, SfsMdReceipt", country_code |-> "Shop, SfsMdReceipt",
     creation_time |-> "Shop", creator_user_id |-> "Shop", data |-> "response, loc",
     detail |-> "response", done |-> "pc",
     email |-> "User", failed |-> "pc", filter |-> "loc", found |-> "loc",
     goc_canonical |-> "pc", goc_item |-> "pc", goc_shop |-> "pc", goc_upsert |-> "pc",
     goc_url |-> "pc", google |-> "IdentityProvider", hi |-> "OsmData.key",
     id |-> "every row", identity |-> "loc", idle |-> "pc", index |-> "loc", issued |-> "loc",
     item_id |-> "PurchasedItem", key |-> "OsmData", lo |-> "OsmData.key",
     md |-> "CountryCode", module |-> "args", n1 |-> "name", n2 |-> "name", n3 |-> "name",
     name |-> "User, PurchasedItem, shop item", names |-> "args", new_user |-> "loc",
     node |-> "OsmType", op |-> "call", osm_data |-> "Shop", osm_id |-> "Shop", own |-> "loc, issued call",
     pending |-> "ItemBarcodeStatus", place |-> "args", plan |-> "args", post |-> "prev", pre |-> "call",
     preset |-> "args", previous |-> "args", provider |-> "UserIdentity", purchases |-> "SfsMdReceipt",
     r1 |-> "receipt id", r2 |-> "receipt id", r3 |-> "receipt id", receipt |-> "TableName, loc",
     receipt_canonical_url |-> "SfsMdReceipt", receipt_id |-> "ReceiptUrl",
     receipt_url |-> "TableName, SfsMdReceipt", relation |-> "OsmType", rest |-> "route module", result |-> "loc", ret |-> "prev",
     ro |-> "CountryCode", sc_call |-> "pc", sc_select |-> "pc", select |-> "planned call", shop |-> "TableName, loc", shop_address |-> "SfsMdReceipt",
     shop_id |-> "SfsMdReceipt, shop item", shop_item |-> "TableName",
     status |-> "PurchasedItem, shop item, prev", status_code |-> "response", sub1 |-> "identity id", sub2 |-> "identity id", table |-> "planned call, issued call",
     telegram |-> "IdentityProvider", type |-> "OsmData", u1 |-> "url", u2 |-> "url", u3 |-> "url",
     updated |-> "loc", url |-> "ReceiptUrl", user |-> "TableName", user_id |-> "UserIdentity",
     user_identity |-> "TableName", uuid |-> "UUID", way |-> "OsmType"]

\* ------------------------------------------------------------------ bounds
\* Calls one behaviour may start (the tables grow with every call).
MaxCalls == 3
\* Largest small OSM key drawn for a constructed shop (0..MaxKey, besides the large keys).
MaxKey == 1

\* ------------------------------------------------------------ value encoding
\* Python None, and a present optional value.
None == <<>>
Some(x) == <<x>>

\* uuid.UUID(s) and str(uuid): the object a handler holds versus the text a row holds.
UUID(s) == [uuid |-> s]
UuidStr(u) == u.uuid

TableNames == {"receipt", "receipt_url", "shop", "shop_item", "user", "user_identity"}

Procs == {1, 2}

VARIABLES
    db,            \* table name -> sequence of rows, in insertion order
    unique,        \* TRUE iff the store enforces uniqueness of the derived keys
    current_table, \* per request: the table selected by the last db.use_table
    pc,            \* per request: the next store call of the handler, or idle/done/failed
    call,          \* per request: [args, op, pre]: the operation, its arguments, the store at its start
    loc,           \* per request: the handler's local variables
    ret,           \* per request: the value returned to the caller
    prev,          \* the call that completed before the current one (sequential runs)
    ncalls         \* calls started so far

vars == <<db, unique, current_table, pc, call, loc, ret, prev, ncalls>>

\* ------------------------------------------------------------------ store
\* A row matches a filter when every listed field equals the filter's (AND-combined).
Matches(row, filter) == \A k \in DOMAIN filter : k \in DOMAIN row /\ row[k] = filter[k]
MatchIdx(rows, filter) == {i \in DOMAIN rows : Matches(rows[i], filter)}

\* read_many(filter, limit): the lists the store may answer. No order is requested,
\* so any matching row may come first.
ReadMany(rows, filter, limit) ==
    LET idx == MatchIdx(rows, filter)
    IN  IF idx = {} \/ limit = 0 THEN {<<>>}
        ELSE IF limit = 1 THEN {<<rows[i]>> : i \in idx}
        ELSE {s \in UNION {[1..n -> {rows[i] : i \in idx}] : n \in 1..limit} :
                 Len(s) = IF Cardinality(idx) < limit THEN Cardinality(idx) ELSE limit}

\* read_one(id): the rows the store may answer, None when no row has the id.
ReadOne(rows, id) ==
    LET idx == MatchIdx(rows, [id |-> id])
    IN  IF idx = {} THEN {None} ELSE {Some(rows[i]) : i \in idx}

\* The derived key a uniqueness constraint covers, per table.
KeyOf(t, row) ==
    CASE t = "user_identity" -> <<row.id, row.provider>>
      [] t = "shop" -> row.osm_id
      [] OTHER -> row.id

\* An insert is refused when the store enforces uniqueness and the key is taken.
Conflicts(t, row) ==
    /\ unique
    /\ t \in {"receipt_url", "shop", "user_identity"}
    /\ \E i \in DOMAIN db[t] : KeyOf(t, db[t][i]) = KeyOf(t, row)

\* The identifier the store assigns to a row inserted without one.
NextId(rows) == Len(rows) + 1

\* create_or_update_one(row): the row with the same id is replaced, else the row is added.
Upsert(rows, row) ==
    IF \E i \in DOMAIN rows : rows[i].id = row.id
    THEN [i \in DOMAIN rows |-> IF rows[i].id = row.id THEN row ELSE rows[i]]
    ELSE Append(rows, row)

\* update_one(id, row): the row with the id is replaced.
UpdateOne(rows, id, row) == [i \in DOMAIN rows |-> IF rows[i].id = id THEN row ELSE rows[i]]

NoCall == [op |-> "none"]

\* ------------------------------------------------------------ request frame
Idle(p) == pc[p] \in {"done", "failed", "idle"}

\* A request begins: the finished one, if any, becomes the previous call.
Begin(p, op, args, first, locals) ==
    /\ Idle(p)
    /\ ncalls < MaxCalls
    /\ ncalls' = ncalls + 1
    /\ prev' = IF pc[p] = "idle" THEN prev
               ELSE [args |-> call[p].args, op |-> call[p].op, post |-> db, pre |-> call[p].pre,
                     ret |-> ret[p], status |-> pc[p]]
    /\ call' = [call EXCEPT ![p] = [args |-> args, op |-> op, pre |-> db]]
    /\ loc' = [loc EXCEPT ![p] = locals]
    /\ ret' = [ret EXCEPT ![p] = None]
    /\ pc' = [pc EXCEPT ![p] = first]
    /\ UNCHANGED <<db, unique, current_table>>

RaiseSwallowed(p) ==
    /\ pc' = [pc EXCEPT ![p] = "done"]
    /\ UNCHANGED <<ret, loc>>

\* The handler raised: the request ends without a return value.
Raise(p) ==
    /\ pc' = [pc EXCEPT ![p] = "failed"]
    /\ UNCHANGED <<ret, loc>>

Goto(p, label) == pc' = [pc EXCEPT ![p] = label]

Return(p, value) ==
    /\ pc' = [pc EXCEPT ![p] = "done"]
    /\ ret' = [ret EXCEPT ![p] = value]

UseTable(p, t) == current_table' = [current_table EXCEPT ![p] = t]

Frame == UNCHANGED <<unique, call, prev, ncalls>>

\* ------------------------------------------------------- UserIdentityHandler
IdentityIds == {"sub1", "sub2"}
Providers == {"google", "telegram"}
Emails == {None, Some("a@example.com")}
Names == {"Ann"}

\* User(**row) and UserIdentity(**row): the objects built from stored rows.
UserOfRow(row) == [email |-> row.email, id |-> UUID(row.id), name |-> row.name]
IdentityOfRow(row) == [id |-> row.id, provider |-> row.provider, user_id |-> UUID(row.user_id)]
\* identity.model_dump(mode="json")
IdentityDump(identity) ==
    [id |-> identity.id, provider |-> identity.provider, user_id |-> UuidStr(identity.user_id)]

StartGetOrCreateUser(p) ==
    \E i \in IdentityIds, pr \in Providers, e \in Emails, n \in Names :
        Begin(p, "get_or_create_user_by_identity",
              [email |-> e, id |-> i, name |-> n, provider |-> pr],
              "uid_find", [identity |-> None, new_user |-> None])

FindFilterById(id, provider) == [id |-> id]

\* The filter of find: both the identity id and the provider.
FindFilter(id, provider) == [id |-> id, provider |-> provider]

UidFindAlwaysMissed(data) == TRUE

\* `if identity:` after find: the lookup answered no row.
UidFindMissed(data) == data = <<>>

\* find(_id, provider): use_table(USER_IDENTITY); read_many({id, provider}, limit=1)
UidFind(p) ==
    /\ pc[p] = "uid_find"
    /\ UseTable(p, "user_identity")
    /\ \E data \in ReadMany(db["user_identity"], FindFilter(call[p].args.id, call[p].args.provider), 1) :
        IF UidFindMissed(data)
        THEN /\ Goto(p, "uid_create_user")
             /\ UNCHANGED loc
        ELSE /\ Goto(p, "uid_read_user")
             /\ loc' = [loc EXCEPT ![p].identity = Some(IdentityOfRow(data[1]))]
    /\ UNCHANGED <<db, ret>>
    /\ Frame

UidReadUserRecreating(p) ==
    /\ pc[p] = "uid_read_user"
    /\ UseTable(p, "user")
    /\ \E row \in ReadOne(db["user"], UuidStr(loc[p].identity[1].user_id)) :
        IF row = None
        THEN Goto(p, "uid_create_user") /\ UNCHANGED <<ret, loc>>
        ELSE Return(p, Some(UserOfRow(row[1]))) /\ UNCHANGED loc
    /\ UNCHANGED db
    /\ Frame

\* use_table(USER); User(**read_one(str(identity.user_id))): a missing row raises.
UidReadUser(p) ==
    /\ pc[p] = "uid_read_user"
    /\ UseTable(p, "user")
    /\ \E row \in ReadOne(db["user"], UuidStr(loc[p].identity[1].user_id)) :
        IF row = None
        THEN Raise(p)
        ELSE Return(p, Some(UserOfRow(row[1]))) /\ UNCHANGED loc
    /\ UNCHANGED db
    /\ Frame

UidCreateUserUnlessEmailKnown(p) ==
    /\ pc[p] = "uid_create_user"
    /\ UseTable(p, "user")
    /\ LET known == MatchIdx(db["user"], [email |-> call[p].args.email])
           user_id == NextId(db["user"])
           row == [email |-> call[p].args.email, id |-> user_id, name |-> call[p].args.name]
       IN  IF known # {}
           THEN \E i \in known :
                   /\ loc' = [loc EXCEPT ![p].new_user = Some(UserOfRow(db["user"][i]))]
                   /\ UNCHANGED db
           ELSE /\ db' = [db EXCEPT !["user"] = Append(@, row)]
                /\ loc' = [loc EXCEPT ![p].new_user = Some(UserOfRow(row))]
    /\ Goto(p, "uid_create_identity")
    /\ UNCHANGED ret
    /\ Frame

\* use_table(USER); create_one(User(email, name)); new_user.id = UUID(user_id)
UidCreateUser(p) ==
    /\ pc[p] = "uid_create_user"
    /\ UseTable(p, "user")
    /\ \/ /\ Raise(p)
          /\ UNCHANGED db
       \/ LET user_id == NextId(db["user"])
              row == [email |-> call[p].args.email, id |-> user_id, name |-> call[p].args.name]
          IN  /\ db' = [db EXCEPT !["user"] = Append(@, row)]
              /\ loc' = [loc EXCEPT ![p].new_user = Some(UserOfRow(row))]
              /\ Goto(p, "uid_create_identity")
              /\ UNCHANGED ret
    /\ Frame

UidCreateIdentityUpserting(p) ==
    /\ pc[p] = "uid_create_identity"
    /\ UseTable(p, "user_identity")
    /\ LET new_identity == [id |-> call[p].args.id, provider |-> call[p].args.provider,
                            user_id |-> loc[p].new_user[1].id]
           row == IdentityDump(new_identity)
           taken == MatchIdx(db["user_identity"], FindFilter(row.id, row.provider))
       IN  /\ db' = [db EXCEPT !["user_identity"] =
                        IF taken = {} THEN Append(@, row)
                        ELSE [i \in DOMAIN @ |-> IF i \in taken THEN row ELSE @[i]]]
           /\ Return(p, loc[p].new_user)
           /\ UNCHANGED loc
    /\ Frame

\* create(UserIdentity(id, provider, user_id)): use_table(USER_IDENTITY); create_one(dump)
UidCreateIdentity(p) ==
    /\ pc[p] = "uid_create_identity"
    /\ UseTable(p, "user_identity")
    /\ LET new_identity == [id |-> call[p].args.id, provider |-> call[p].args.provider,
                            user_id |-> loc[p].new_user[1].id]
           row == IdentityDump(new_identity)
       IN  \/ /\ Raise(p)
              /\ UNCHANGED db
           \/ /\ ~Conflicts("user_identity", row)
              /\ db' = [db EXCEPT !["user_identity"] = Append(@, row)]
              /\ Return(p, loc[p].new_user)
              /\ UNCHANGED loc
    /\ Frame

\* ------------------------------------------------------------- Shop schema
\* str(int) and int(str) on decimal text, a text being a sequence of characters.
DigitChars == <<"0", "1", "2", "3", "4", "5", "6", "7", "8", "9">>
DigitVal(c) == (CHOOSE d \in 1..10 : DigitChars[d] = c) - 1

RECURSIVE ToStr(_)
ToStr(n) == IF n < 10 THEN <<DigitChars[n + 1]>> ELSE ToStr(n \div 10) \o <<DigitChars[(n % 10) + 1]>>

RECURSIVE ParseInt(_)
ParseInt(s) == IF s = <<>> THEN 0 ELSE ParseInt(SubSeq(s, 1, Len(s) - 1)) * 10 + DigitVal(s[Len(s)])

\* An OSM key is an unbounded Python int. It is held as two limbs, hi * LimbBase + lo,
\* so that keys above 2^32 exist in the model.
LimbBase == 100000
LimbDigits == 5
Key(hi, lo) == [hi |-> hi, lo |-> lo]

RECURSIVE ZeroPad(_, _)
ZeroPad(s, width) == IF Len(s) >= width THEN s ELSE ZeroPad(<<"0">> \o s, width)

\* str(key)
KeyStr(key) == IF key.hi = 0 THEN ToStr(key.lo) ELSE ToStr(key.hi) \o ZeroPad(ToStr(key.lo), LimbDigits)

OsmTypes == {"node", "relation", "way"}

OsmTypeCodeNodeWayRelation(type) == CASE type = "node" -> 1 [] type = "way" -> 2 [] type = "relation" -> 3

\* The numeric code of an OSM type: NODE=1, RELATION=2, WAY=3.
OsmTypeCode(type) == CASE type = "node" -> 1 [] type = "relation" -> 2 [] type = "way" -> 3

\* osm_id = "{type_code}:{key}"
DeriveOsmId(osm_data) == ToStr(OsmTypeCode(osm_data.type)) \o <<":">> \o KeyStr(osm_data.key)

\* Shop(**fields): osm_id is derived from osm_data only when none was supplied.
Shop(f) == IF f.osm_id = None THEN [f EXCEPT !.osm_id = Some(DeriveOsmId(f.osm_data[1]))] ELSE f

\* shop.model_dump(mode="json"): the UUID becomes text.
ShopDump(shop) == [shop EXCEPT !.creator_user_id = UuidStr(@)]

\* Shop(**row) for a stored row (with its fields possibly backfilled).
ShopOfRow(row) == Shop([row EXCEPT !.id = Some(@), !.creator_user_id = UUID(@)])

\* Keys at and above 2^32 (4294967297, 9999999999) and just above one limb (100007).
LargeKeys == {Key(1, 7), Key(42949, 67297), Key(99999, 99999)}
OsmKeys == {Key(0, k) : k \in 0..MaxKey} \cup LargeKeys
PresetOsmIds == {None, Some(<<"x">>), Some(<<"1", ":", "0">>)}
Addresses == {"a1", "a2"}
Place(address, company_id, country_code) ==
    [address |-> address, company_id |-> company_id, country_code |-> country_code]

\* The Shop a request body is parsed into.
ShopRequest(type, key, preset, place) ==
    Shop([address |-> Some(place.address),
          company_id |-> Some(place.company_id),
          country_code |-> Some(place.country_code),
          creation_time |-> 200,
          creator_user_id |-> UUID("creator"),
          id |-> None,
          osm_data |-> Some([key |-> key, type |-> type]),
          osm_id |-> preset])

StartShopNew(p) ==
    \E type \in OsmTypes, key \in OsmKeys, preset \in PresetOsmIds, address \in Addresses :
        Begin(p, "Shop", [address |-> address, key |-> key, preset |-> preset, type |-> type],
              "shop_new", <<>>)

ShopNew(p) ==
    /\ pc[p] = "shop_new"
    /\ Return(p, Some(ShopRequest(call[p].args.type, call[p].args.key, call[p].args.preset,
                                  Place(call[p].args.address, "c1", "md"))))
    /\ UNCHANGED <<db, loc, current_table>>
    /\ Frame

\* --------------------------------------------------------------- ShopHandler
ShopKeys == {Key(0, 0)}
ShopPresetOsmIds == {None, Some(<<"1", ":", "0">>)}
ShopPlaces == {Place("a1", "c1", "md"), Place("a2", "c2", "ro")}

StartShopGetOrCreate(p) ==
    \E type \in {"node", "way"}, key \in ShopKeys, preset \in ShopPresetOsmIds, place \in ShopPlaces :
        Begin(p, "shop_get_or_create",
              [key |-> key, place |-> place, preset |-> preset, type |-> type],
              "shop_find", [found |-> None, shop |-> ShopRequest(type, key, preset, place)])

BackfillAll(row, shop) ==
    [row EXCEPT !.country_code = shop.country_code, !.company_id = shop.company_id,
                !.address = shop.address, !.osm_data = shop.osm_data]

\* The stored row with each null legacy field taken from the incoming shop.
Backfill(row, shop) ==
    [row EXCEPT !.country_code = IF @ = None THEN shop.country_code ELSE @,
                !.company_id = IF @ = None THEN shop.company_id ELSE @,
                !.address = IF @ = None THEN shop.address ELSE @,
                !.osm_data = IF @ = None THEN shop.osm_data ELSE @]

ShopLookupByAddress(shop) == [address |-> shop.address]

ShopLookupDerived(shop) == [osm_id |-> Some(DeriveOsmId(shop.osm_data[1]))]

\* The filter of the existence lookup: osm_id alone.
ShopLookup(shop) == [osm_id |-> shop.osm_id]

ShopFindWritingBack(p) ==
    /\ pc[p] = "shop_find"
    /\ UseTable(p, "shop")
    /\ \E shops \in ReadMany(db["shop"], ShopLookup(loc[p].shop), 1) :
        IF shops # <<>>
        THEN /\ Return(p, Some(ShopOfRow(Backfill(shops[1], loc[p].shop))))
             /\ loc' = [loc EXCEPT ![p].found = Some(shops[1])]
             /\ db' = [db EXCEPT !["shop"] = UpdateOne(@, shops[1].id, Backfill(shops[1], loc[p].shop))]
        ELSE /\ Goto(p, "shop_create")
             /\ UNCHANGED <<ret, loc, db>>
    /\ Frame

\* use_table(SHOP); read_many({"osm_id": shop.osm_id}, limit=1); found: backfill and return
ShopFind(p) ==
    /\ pc[p] = "shop_find"
    /\ UseTable(p, "shop")
    /\ \E shops \in ReadMany(db["shop"], ShopLookup(loc[p].shop), 1) :
        IF shops # <<>>
        THEN /\ Return(p, Some(ShopOfRow(Backfill(shops[1], loc[p].shop))))
             /\ loc' = [loc EXCEPT ![p].found = Some(shops[1])]
        ELSE /\ Goto(p, "shop_create")
             /\ UNCHANGED <<ret, loc>>
    /\ UNCHANGED db
    /\ Frame

ShopWithIdUnset(shop, shop_id) == shop

\* shop.id = int(shop_id)
ShopWithId(shop, shop_id) == [shop EXCEPT !.id = Some(ParseInt(shop_id))]

ShopInsertReplacing(rows, row) == <<row>>

ShopInsertTwice(rows, row) == Append(Append(rows, row), row)

\* The write of the shop row: db.create_one, a plain insert.
ShopInsert(rows, row) == Append(rows, row)

\* create_one(shop.model_dump(mode="json")); shop.id = int(shop_id); return shop
ShopCreate(p) ==
    /\ pc[p] = "shop_create"
    /\ LET dump == ShopDump(loc[p].shop)
           id == IF dump.id = None THEN NextId(db["shop"]) ELSE dump.id[1]
           row == [dump EXCEPT !.id = id]
           shop_id == ToStr(id)
           shop == ShopWithId(loc[p].shop, shop_id)
       IN  \/ /\ Raise(p)
              /\ UNCHANGED db
           \/ /\ ~Conflicts("shop", row)
              /\ db' = [db EXCEPT !["shop"] = ShopInsert(@, row)]
              /\ loc' = [loc EXCEPT ![p].shop = shop]
              /\ Return(p, Some(shop))
    /\ UNCHANGED current_table
    /\ Frame

\* ------------------------------------------------------- SfsMdReceipt schema
\* make_hash(url): the lookup key of a ReceiptUrl row, one key per URL.
MakeHash(url) == <<"hash", url>>

\* ReceiptUrl(url=..., receipt_id=...).model_dump(mode="json"), with id = make_hash(url)
ReceiptUrlDump(url, receipt_id) == [id |-> MakeHash(url), receipt_id |-> receipt_id, url |-> url]

\* receipt.model_dump(mode="json"): the item UUIDs become text.
ReceiptDump(receipt) ==
    [receipt EXCEPT !.purchases =
        [i \in DOMAIN @ |-> [@[i] EXCEPT !.item_id = IF @ = None THEN None ELSE Some(UuidStr(@[1]))]]]

\* SfsMdReceipt(**row)
ReceiptOfRow(row) ==
    [row EXCEPT !.purchases =
        [i \in DOMAIN @ |-> [@[i] EXCEPT !.item_id = IF @ = None THEN None ELSE Some(UUID(@[1]))]]]

\* PurchasedItem(name=...): item_id None, status PENDING.
PurchasedItem(name) == [item_id |-> None, name |-> name, status |-> "pending"]

\* The receipt a client submits.
SfsMdReceipt(id, place, shop_id, url, canonical, names) ==
    [company_id |-> place.company_id,
     country_code |-> place.country_code,
     id |-> id,
     purchases |-> [i \in DOMAIN names |-> PurchasedItem(names[i])],
     receipt_canonical_url |-> canonical,
     receipt_url |-> url,
     shop_address |-> place.address,
     shop_id |-> shop_id]

\* ------------------------------------------------------- SfsMdReceiptHandler
GetByIdAnyRow(rows, receipt_id) == {Some(ReceiptOfRow(rows[i])) : i \in DOMAIN rows} \cup {None}

\* get_by_id(receipt_id): read_one, then SfsMdReceipt(**row) or None; the answers possible on rows.
GetById(rows, receipt_id) ==
    {IF receipt # None THEN Some(ReceiptOfRow(receipt[1])) ELSE None : receipt \in ReadOne(rows, receipt_id)}

StartGetById(p, ids) ==
    \E id \in ids : Begin(p, "get_by_id", [receipt_id |-> id], "rcp_read", <<>>)

\* get_by_id: use_table(RECEIPT); read_one(receipt_id)
RcpRead(p) ==
    /\ pc[p] = "rcp_read"
    /\ UseTable(p, "receipt")
    /\ \E receipt \in GetById(db["receipt"], call[p].args.receipt_id) : Return(p, receipt)
    /\ UNCHANGED <<db, loc>>
    /\ Frame

StartGetByUrl(p, urls) ==
    \E url \in urls : Begin(p, "get_by_url", [url |-> url], "url_read", [receipt_id |-> None])

\* get_by_url: use_table(RECEIPT_URL); read_one(make_hash(url))
UrlRead(p) ==
    /\ pc[p] = "url_read"
    /\ UseTable(p, "receipt_url")
    /\ \E receipt_url \in ReadOne(db["receipt_url"], MakeHash(call[p].args.url)) :
        IF receipt_url # None
        THEN /\ loc' = [loc EXCEPT ![p].receipt_id = Some(receipt_url[1].receipt_id)]
             /\ Goto(p, "url_read_receipt")
             /\ UNCHANGED ret
        ELSE /\ Return(p, None)
             /\ UNCHANGED loc
    /\ UNCHANGED db
    /\ Frame

\* ... then use_table(RECEIPT); read_one(url.receipt_id)
UrlReadReceipt(p) ==
    /\ pc[p] = "url_read_receipt"
    /\ UseTable(p, "receipt")
    /\ \E receipt \in GetById(db["receipt"], loc[p].receipt_id[1]) : Return(p, receipt)
    /\ UNCHANGED <<db, loc>>
    /\ Frame

\* get_or_create(receipt)
StartReceiptGetOrCreate(p, ids, places, shop_ids, urls, canonicals, purchases) ==
    \E id \in ids, place \in places, sid \in shop_ids, url \in urls,
       canonical \in canonicals, names \in purchases :
        Begin(p, "receipt_get_or_create",
              [canonical |-> canonical, id |-> id, names |-> names, place |-> place,
               shop_id |-> sid, url |-> url],
              "goc_shop",
              [index |-> 0, receipt |-> SfsMdReceipt(id, place, sid, url, canonical, names)])

ShopFilterWithoutAddress(receipt) ==
    [company_id |-> Some(receipt.company_id), country_code |-> Some(receipt.country_code)]

\* The filter of the shop resolution: the (address, company_id, country_code) triple.
ShopFilter(receipt) ==
    [address |-> Some(receipt.shop_address),
     company_id |-> Some(receipt.company_id),
     country_code |-> Some(receipt.country_code)]

AfterLookupUpsertFirst(receipt, n) == "goc_upsert"

\* After the shop lookup and after each item lookup: the next purchase line, or the upsert.
AfterLookup(receipt, n) == IF n < Len(receipt.purchases) THEN "goc_item" ELSE "goc_upsert"

\* use_table(SHOP); read_many({address, company_id, country_code}, limit=1)
GocShop(p) ==
    /\ pc[p] = "goc_shop"
    /\ UseTable(p, "shop")
    /\ \E shops \in ReadMany(db["shop"], ShopFilter(loc[p].receipt), 1) :
        IF shops # <<>>
        THEN /\ loc' = [loc EXCEPT ![p].receipt.shop_id = Some(shops[1].id)]
             /\ Goto(p, AfterLookup(loc[p].receipt, 0))
        ELSE /\ UNCHANGED loc
             /\ Goto(p, "goc_upsert")
    /\ UNCHANGED <<db, ret>>
    /\ Frame

ItemFilterByName(receipt, n) == [name |-> receipt.purchases[n].name]

\* The filter of the catalog lookup of purchase line n: its name and the resolved shop_id.
ItemFilter(receipt, n) == [name |-> receipt.purchases[n].name, shop_id |-> receipt.shop_id[1]]

ItemStatusIgnored(item) == "pending"

\* items[0].get("status", ItemBarcodeStatus.PENDING)
ItemStatus(item) == IF "status" \in DOMAIN item THEN item.status ELSE "pending"

\* use_table(SHOP_ITEM); read_many({name, shop_id}, limit=1) for the next purchase line
GocItem(p) ==
    /\ pc[p] = "goc_item"
    /\ UseTable(p, "shop_item")
    /\ LET n == loc[p].index + 1
           receipt == loc[p].receipt
       IN  \E items \in ReadMany(db["shop_item"], ItemFilter(receipt, n), 1) :
            /\ loc' = [loc EXCEPT ![p].index = n,
                                  ![p].receipt.purchases[n] =
                                      IF items # <<>>
                                      THEN [@ EXCEPT !.item_id = Some(UUID(items[1].id)),
                                                     !.status = ItemStatus(items[1])]
                                      ELSE @]
            /\ Goto(p, AfterLookup(receipt, n))
    /\ UNCHANGED <<db, ret>>
    /\ Frame

GocWriteCreates(rows, row) == Append(rows, row)

GocWriteKeepingShop(rows, row) ==
    LET stored == {i \in DOMAIN rows : rows[i].id = row.id}
    IN  IF stored # {} /\ row.shop_id = None
        THEN [i \in DOMAIN rows |-> IF i \in stored THEN [row EXCEPT !.shop_id = rows[i].shop_id] ELSE rows[i]]
        ELSE Upsert(rows, row)

\* The write of the receipt row: db.create_or_update_one, not db.create_one.
GocWrite(rows, row) == Upsert(rows, row)

\* use_table(RECEIPT); create_or_update_one(receipt.model_dump(mode="json"))
GocUpsert(p) ==
    /\ pc[p] = "goc_upsert"
    /\ UseTable(p, "receipt")
    /\ \/ /\ Raise(p)
          /\ UNCHANGED db
       \/ /\ db' = [db EXCEPT !["receipt"] = GocWrite(@, ReceiptDump(loc[p].receipt))]
          /\ Goto(p, "goc_url")
          /\ UNCHANGED <<ret, loc>>
    /\ Frame

GocUrlRowOfUrl(receipt) == ReceiptUrlDump(receipt.receipt_url, receipt.receipt_url)

GocUrlRowOfCanonical(receipt) ==
    ReceiptUrlDump(IF receipt.receipt_canonical_url # None THEN receipt.receipt_canonical_url[1]
                   ELSE receipt.receipt_url, receipt.id)

\* ReceiptUrl(url=receipt.receipt_url, receipt_id=receipt.id).model_dump(mode="json")
GocUrlRow(receipt) == ReceiptUrlDump(receipt.receipt_url, receipt.id)

GocUrlWriteUpserts(rows, row) == Upsert(rows, row)

\* The write of a ReceiptUrl row: db.create_one, a plain insert.
GocUrlWrite(rows, row) == Append(rows, row)

GocUrlAtomic(p) ==
    /\ pc[p] = "goc_url"
    /\ UseTable(p, "receipt_url")
    /\ LET receipt == loc[p].receipt
           row == GocUrlRow(receipt)
       IN  \/ /\ Raise(p)
              /\ db' = [db EXCEPT !["receipt"] = call[p].pre["receipt"]]
           \/ /\ ~Conflicts("receipt_url", row)
              /\ db' = [db EXCEPT !["receipt_url"] = GocUrlWrite(@, row)]
              /\ UNCHANGED loc
              /\ IF receipt.receipt_canonical_url # None
                 THEN Goto(p, "goc_canonical") /\ UNCHANGED ret
                 ELSE Return(p, Some(receipt))
    /\ Frame

\* use_table(RECEIPT_URL); create_one(ReceiptUrl(url=receipt.receipt_url, receipt_id=receipt.id))
GocUrl(p) ==
    /\ pc[p] = "goc_url"
    /\ UseTable(p, "receipt_url")
    /\ LET receipt == loc[p].receipt
           row == GocUrlRow(receipt)
       IN  \/ /\ Raise(p)
              /\ UNCHANGED db
           \/ /\ ~Conflicts("receipt_url", row)
              /\ db' = [db EXCEPT !["receipt_url"] = GocUrlWrite(@, row)]
              /\ UNCHANGED loc
              /\ IF receipt.receipt_canonical_url # None
                 THEN Goto(p, "goc_canonical") /\ UNCHANGED ret
                 ELSE Return(p, Some(receipt))
    /\ Frame

\* if receipt.receipt_canonical_url: create_one(ReceiptUrl(url=canonical, receipt_id=receipt.id))
GocCanonical(p) ==
    /\ pc[p] = "goc_canonical"
    /\ LET receipt == loc[p].receipt
           row == ReceiptUrlDump(receipt.receipt_canonical_url[1], receipt.id)
       IN  \/ /\ Raise(p)
              /\ UNCHANGED db
           \/ /\ ~Conflicts("receipt_url", row)
              /\ db' = [db EXCEPT !["receipt_url"] = GocUrlWrite(@, row)]
              /\ UNCHANGED loc
              /\ Return(p, Some(receipt))
    /\ UNCHANGED current_table
    /\ Frame

\* add_shop_id(shop_id, receipt): the receipt passed in may already carry a shop_id.
StartAddShopId(p, shop_ids, ids, places, urls, previous) ==
    \E sid \in shop_ids, id \in ids, place \in places, url \in urls, old \in previous :
        Begin(p, "add_shop_id",
              [id |-> id, place |-> place, previous |-> old, shop_id |-> sid, url |-> url],
              "add_shop",
              [receipt |-> SfsMdReceipt(id, place, old, url, None, <<>>), updated |-> None])

WithShopIdIfSet(receipt, shop_id) ==
    IF shop_id = 0 THEN receipt ELSE [receipt EXCEPT !.shop_id = Some(shop_id)]

\* receipt.shop_id = shop_id
WithShopId(receipt, shop_id) == [receipt EXCEPT !.shop_id = Some(shop_id)]

\* use_table(RECEIPT); receipt.shop_id = shop_id; update_one(receipt.id, dump); return receipt.
\* update_one answers False when no row has the id or the write fails; the answer is dropped.
AddShop(p) ==
    /\ pc[p] = "add_shop"
    /\ UseTable(p, "receipt")
    /\ LET receipt == WithShopId(loc[p].receipt, call[p].args.shop_id)
           exists == \E i \in DOMAIN db["receipt"] : db["receipt"][i].id = receipt.id
       IN  \E ok \in {exists, FALSE} :
            /\ db' = IF ok THEN [db EXCEPT !["receipt"] = UpdateOne(@, receipt.id, ReceiptDump(receipt))]
                     ELSE db
            /\ loc' = [loc EXCEPT ![p] = [receipt |-> receipt, updated |-> Some(ok)]]
            /\ Return(p, Some(receipt))
    /\ Frame

\* ------------------------------------------------------------ specifications
EmptyDb == [t \in TableNames |-> <<>>]

InitFrame ==
    /\ current_table = [p \in Procs |-> None]
    /\ pc = [p \in Procs |-> "idle"]
    /\ call = [p \in Procs |-> NoCall]
    /\ loc = [p \in Procs |-> <<>>]
    /\ ret = [p \in Procs |-> None]
    /\ prev = NoCall
    /\ ncalls = 0

InitUser ==
    /\ db = EmptyDb
    /\ unique \in BOOLEAN
    /\ InitFrame

UserStep(p) ==
    \/ StartGetOrCreateUser(p)
    \/ UidFind(p)
    \/ UidReadUser(p)
    \/ UidCreateUser(p)
    \/ UidCreateIdentity(p)

NextUser == UserStep(1)

\* One user-identity request at a time.
SpecUser == InitUser /\ [][NextUser]_vars

\* A shop row that predates country_code, company_id, address and osm_data.
LegacyShopRows ==
    {[address |-> ad, company_id |-> co, country_code |-> cc, creation_time |-> 100,
      creator_user_id |-> "legacy", id |-> 1, osm_data |-> od, osm_id |-> Some(<<"1", ":", "0">>)] :
        cc \in {None, Some("md")}, co \in {None, Some("c1")}, ad \in {None, Some("a1")},
        od \in {None, Some([key |-> Key(0, 0), type |-> "node"])}}

InitShop ==
    /\ \E shops \in {<<>>} \cup {<<row>> : row \in LegacyShopRows} :
        db = [EmptyDb EXCEPT !["shop"] = shops]
    /\ unique \in BOOLEAN
    /\ InitFrame

ShopStep(p) ==
    \/ StartShopGetOrCreate(p)
    \/ ShopFind(p)
    \/ ShopCreate(p)

NextShop == ShopStep(1)

\* One shop request at a time.
SpecShop == InitShop /\ [][NextShop]_vars

\* The concurrent requests sign in one identity id, under either provider.
StartGetOrCreateUserConc(p) ==
    /\ StartGetOrCreateUser(p)
    /\ call'[p].args.id = "sub1"
    /\ call'[p].args.email = None

NextUserConc ==
    \E p \in Procs :
        \/ StartGetOrCreateUserConc(p)
        \/ UidFind(p)
        \/ UidReadUser(p)
        \/ UidCreateUser(p)
        \/ UidCreateIdentity(p)

\* Two user-identity requests whose store calls interleave.
SpecUserConc == InitUser /\ [][NextUserConc]_vars

\* A store without the constraint that holds a legacy row and a current row with one osm_id.
InitShopFound ==
    /\ \E row \in LegacyShopRows :
        db = [EmptyDb EXCEPT !["shop"] =
                 <<row,
                   [address |-> Some("a2"), company_id |-> Some("c2"), country_code |-> Some("ro"),
                    creation_time |-> 200, creator_user_id |-> "creator", id |-> 2,
                    osm_data |-> Some([key |-> Key(0, 0), type |-> "node"]),
                    osm_id |-> Some(<<"1", ":", "0">>)]>>]
    /\ unique = FALSE
    /\ InitFrame

\* One shop request at a time, over a store where several rows share an osm_id.
SpecShopFound == InitShopFound /\ [][NextShop]_vars

InitShopConc ==
    /\ db = EmptyDb
    /\ unique \in BOOLEAN
    /\ InitFrame

NextShopConc == \E p \in Procs : ShopStep(p)

\* Two shop requests whose store calls interleave.
SpecShopConc == InitShopConc /\ [][NextShopConc]_vars

InitOsm ==
    /\ db = EmptyDb
    /\ unique = FALSE
    /\ InitFrame

NextOsm == StartShopNew(1) \/ ShopNew(1)

\* Shop objects constructed from request bodies.
SpecOsm == InitOsm /\ [][NextOsm]_vars

\* The store of the receipt specifications: one current shop, one legacy shop row
\* without an address, and the catalog of the two shops.
ReceiptShops ==
    <<[address |-> Some("a1"), company_id |-> Some("c1"), country_code |-> Some("md"),
       creation_time |-> 200, creator_user_id |-> "creator", id |-> 1,
       osm_data |-> Some([key |-> Key(0, 0), type |-> "node"]), osm_id |-> Some(<<"1", ":", "0">>)],
      [address |-> None, company_id |-> Some("c2"), country_code |-> Some("md"),
       creation_time |-> 100, creator_user_id |-> "legacy", id |-> 2,
       osm_data |-> None, osm_id |-> Some(<<"3", ":", "0">>)]>>

ReceiptShopItems ==
    <<[id |-> "i1", name |-> "n1", shop_id |-> 1, status |-> "approved"],
      [id |-> "i2", name |-> "n2", shop_id |-> 1],
      [id |-> "i3", name |-> "n3", shop_id |-> 2, status |-> "approved"]>>

InitReceipt ==
    /\ db = [EmptyDb EXCEPT !["shop"] = ReceiptShops, !["shop_item"] = ReceiptShopItems]
    /\ unique \in BOOLEAN
    /\ InitFrame

ReceiptIds == {"r1", "r2"}
ReceiptUrls == {"u1", "u2"}

NextReceipt ==
    \/ StartReceiptGetOrCreate(1, ReceiptIds, {Place("a1", "c1", "md")}, {None},
                               ReceiptUrls, {None, Some("u2")}, {<<>>})
    \/ StartGetById(1, ReceiptIds)
    \/ StartGetByUrl(1, ReceiptUrls)
    \/ StartAddShopId(1, {0, 2}, ReceiptIds, {Place("a1", "c1", "md")}, {"u1"}, {None})
    \/ RcpRead(1)
    \/ UrlRead(1)
    \/ UrlReadReceipt(1)
    \/ GocShop(1)
    \/ GocUpsert(1)
    \/ GocUrl(1)
    \/ GocCanonical(1)
    \/ AddShop(1)

\* One receipt request at a time: lookups by id and by URL, submissions, shop links.
SpecReceipt == InitReceipt /\ [][NextReceipt]_vars

NextResolve ==
    \/ StartReceiptGetOrCreate(1, {"r1"},
                               {Place("a1", "c1", "md"), Place("a1", "c2", "md"), Place("a2", "c1", "md")},
                               {None, Some(2)}, {"u1"}, {None},
                               {<<>>, <<"n1", "n3">>, <<"n3", "n2">>})
    \/ GocShop(1)
    \/ GocItem(1)
    \/ GocUpsert(1)
    \/ GocUrl(1)

\* One receipt submission at a time, resolving its shop and its catalog items.
SpecResolve == InitReceipt /\ [][NextResolve]_vars

NextLink ==
    \/ StartReceiptGetOrCreate(1, {"r1"}, {Place("a1", "c1", "md"), Place("a2", "c1", "md")},
                               {None, Some(2)}, {"u1"}, {None}, {<<>>})
    \/ StartAddShopId(1, {0, 2}, ReceiptIds, {Place("a1", "c1", "md"), Place("a2", "c1", "md")},
                      {"u1"}, {None, Some(1)})
    \/ StartGetById(1, {"r1"})
    \/ GocShop(1)
    \/ GocUpsert(1)
    \/ GocUrl(1)
    \/ AddShop(1)
    \/ RcpRead(1)

\* One request at a time: submissions of a receipt, shop links, lookups by id.
SpecLink == InitReceipt /\ [][NextLink]_vars

\* ------------------------------------- UserIdentityHandler: find, create, update
StartFind(p) ==
    \E i \in IdentityIds, pr \in Providers :
        Begin(p, "find", [id |-> i, provider |-> pr], "find_read", <<>>)

\* find(_id, provider): use_table(USER_IDENTITY); read_many({id, provider}, limit=1);
\* None when no row came back, else UserIdentity(**data[0])
FindRead(p) ==
    /\ pc[p] = "find_read"
    /\ UseTable(p, "user_identity")
    /\ \E data \in ReadMany(db["user_identity"], FindFilter(call[p].args.id, call[p].args.provider), 1) :
        Return(p, IF UidFindMissed(data) THEN None ELSE Some(IdentityOfRow(data[1])))
    /\ UNCHANGED <<db, loc>>
    /\ Frame

\* The users an identity passed to create or update may name.
UserIds == {1, 2}

StartCreate(p) ==
    \E i \in IdentityIds, pr \in Providers, u \in UserIds :
        Begin(p, "create", [id |-> i, provider |-> pr, user_id |-> UUID(u)], "create_identity", <<>>)

\* create(identity): use_table(USER_IDENTITY); create_one(identity.model_dump(mode="json"))
CreateIdentity(p) ==
    /\ pc[p] = "create_identity"
    /\ UseTable(p, "user_identity")
    /\ LET row == IdentityDump(call[p].args)
       IN  \/ /\ Raise(p)
              /\ UNCHANGED db
           \/ /\ ~Conflicts("user_identity", row)
              /\ db' = [db EXCEPT !["user_identity"] = Append(@, row)]
              /\ Return(p, Some(row.id))
              /\ UNCHANGED loc
    /\ Frame

\* update_one_by(filter, data): the listed fields of every row matching the filter are replaced.
UpdateOneBy(rows, filter, data) ==
    [i \in DOMAIN rows |->
        IF Matches(rows[i], filter)
        THEN [k \in DOMAIN rows[i] |-> IF k \in DOMAIN data THEN data[k] ELSE rows[i][k]]
        ELSE rows[i]]

UpdatePayloadWhole(dump) == dump

\* data after data.pop("id") and data.pop("provider"): the remaining fields of the dump.
UpdatePayload(dump) == [user_id |-> dump.user_id]

StartUpdate(p) ==
    \E i \in IdentityIds, pr \in Providers, u \in UserIds :
        Begin(p, "update", [id |-> i, provider |-> pr, user_id |-> UUID(u)], "update_identity",
              [data |-> None, filter |-> None, updated |-> None])

\* update(identity): data = dump; _id = data.pop("id"); provider = data.pop("provider");
\* update_one_by({id, provider}, data). False when no row matches or the write fails.
UpdateIdentity(p) ==
    /\ pc[p] = "update_identity"
    /\ UseTable(p, "user_identity")
    /\ LET dump == IdentityDump(call[p].args)
           filter == [id |-> dump.id, provider |-> dump.provider]
           data == UpdatePayload(dump)
           exists == MatchIdx(db["user_identity"], filter) # {}
       IN  \E ok \in {exists, FALSE} :
            /\ db' = IF ok THEN [db EXCEPT !["user_identity"] = UpdateOneBy(@, filter, data)] ELSE db
            /\ loc' = [loc EXCEPT ![p] = [data |-> Some(data), filter |-> Some(filter), updated |-> Some(ok)]]
            /\ Return(p, Some(ok))
    /\ Frame

\* ------------------------------------------------ specifications, continued
\* A store with one user and its identity, one receipt with its URL, and a ReceiptUrl row
\* whose receipt is not in the receipt table.
LookupDb ==
    [EmptyDb EXCEPT
        !["receipt"] = <<ReceiptDump(SfsMdReceipt("r1", Place("a1", "c1", "md"), Some(1), "u1", None, <<"n1">>))>>,
        !["receipt_url"] = <<ReceiptUrlDump("u1", "r1"), ReceiptUrlDump("u2", "r3")>>,
        !["user"] = <<[email |-> None, id |-> 1, name |-> "Ann"]>>,
        !["user_identity"] = <<[id |-> "sub1", provider |-> "google", user_id |-> 1]>>]

InitLookup ==
    /\ db \in {EmptyDb, LookupDb}
    /\ unique \in BOOLEAN
    /\ InitFrame

NextIdentity == UserStep(1) \/ StartFind(1) \/ FindRead(1)

\* One identity request at a time: get_or_create_user_by_identity or find.
SpecIdentity == InitUser /\ [][NextIdentity]_vars

NextLookup ==
    \/ StartFind(1)
    \/ StartGetById(1, ReceiptIds)
    \/ StartGetByUrl(1, {"u1", "u2", "u3"})
    \/ FindRead(1)
    \/ RcpRead(1)
    \/ UrlRead(1)
    \/ UrlReadReceipt(1)

\* One lookup at a time: find, get_by_id, get_by_url.
SpecLookup == InitLookup /\ [][NextLookup]_vars

\* --------------------------------------------- route modules: receipt lookups
\* adapters/api/fastapi_routes.py and adapters/rest/fastapi_routes.py
RouteModules == {"api", "rest"}

\* raise HTTPException(status_code=404, detail="Receipt not found")
NotFound == [detail |-> "Receipt not found", status_code |-> 404]

\* ApiResponse(status_code=200, detail="Receipt retrieved successfully", data=receipt)
ApiOk(receipt) == [data |-> receipt, detail |-> "Receipt retrieved successfully", status_code |-> 200]

\* A route that returns the handler's result as the body of a successful response.
Plain(receipt) == [data |-> receipt, status_code |-> 200]

\* get_receipt_by_id: the api module answers 404 on None; the rest module returns
\* handler.get_by_id(...) as it is.
GetByIdResponse(module, receipt) ==
    IF module = "api"
    THEN IF receipt = None THEN NotFound ELSE ApiOk(receipt)
    ELSE Plain(receipt)

\* get_receipt_by_url: both modules answer 404 on None.
GetByUrlResponse(module, receipt) ==
    IF receipt = None THEN NotFound
    ELSE IF module = "api" THEN ApiOk(receipt) ELSE Plain(receipt)

\* The ReceiptUrl rows read_one(make_hash(url)) may answer.
UrlKeyRowsOf(store, url) == MatchIdx(store["receipt_url"], [id |-> MakeHash(url)])

\* get_by_url(url): the answers possible on a store (both reads of the handler).
GetByUrl(store, url) ==
    UNION {IF receipt_url = None THEN {None} ELSE GetById(store["receipt"], receipt_url[1].receipt_id) :
               receipt_url \in ReadOne(store["receipt_url"], MakeHash(url))}

StartRouteGetById(p, ids) ==
    \E m \in RouteModules, id \in ids :
        Begin(p, "route_get_by_id", [module |-> m, receipt_id |-> id], "route_get_by_id", [result |-> None])

\* GET /receipt/get-by-id: handler.get_by_id, then the route's response
RouteGetById(p) ==
    /\ pc[p] = "route_get_by_id"
    /\ UseTable(p, "receipt")
    /\ \E receipt \in GetById(db["receipt"], call[p].args.receipt_id) :
        /\ loc' = [loc EXCEPT ![p].result = receipt]
        /\ Return(p, Some(GetByIdResponse(call[p].args.module, receipt)))
    /\ UNCHANGED db
    /\ Frame

StartRouteGetByUrl(p, urls) ==
    \E m \in RouteModules, url \in urls :
        Begin(p, "route_get_by_url", [module |-> m, url |-> url], "route_get_by_url", [result |-> None])

\* POST /receipt/get-by-url: handler.get_by_url, then the route's response
RouteGetByUrl(p) ==
    /\ pc[p] = "route_get_by_url"
    /\ \E receipt \in GetByUrl(db, call[p].args.url) :
        /\ UseTable(p, IF UrlKeyRowsOf(db, call[p].args.url) = {} THEN "receipt_url" ELSE "receipt")
        /\ loc' = [loc EXCEPT ![p].result = receipt]
        /\ Return(p, Some(GetByUrlResponse(call[p].args.module, receipt)))
    /\ UNCHANGED db
    /\ Frame

NextRoutes ==
    \/ StartRouteGetById(1, ReceiptIds)
    \/ StartRouteGetByUrl(1, {"u1", "u2", "u3"})
    \/ RouteGetById(1)
    \/ RouteGetByUrl(1)

\* One receipt lookup request at a time, through either route module.
SpecRoutes == InitLookup /\ [][NextRoutes]_vars


\* ------------------------------------------------- every handler operation
\* A store with one user and its identity, one shop and the catalog, one receipt and its URL.
AllDb ==
    [LookupDb EXCEPT !["shop"] = <<ReceiptShops[1]>>, !["shop_item"] = ReceiptShopItems]

\* Calls per run of the all-operations specification.
MaxAllCalls == 2

InitAll ==
    /\ db = AllDb
    /\ unique \in BOOLEAN
    /\ InitFrame

NextAll ==
    \/ ncalls < MaxAllCalls /\ StartGetOrCreateUser(1)
    \/ ncalls < MaxAllCalls /\ StartFind(1)
    \/ ncalls < MaxAllCalls /\ StartCreate(1)
    \/ ncalls < MaxAllCalls /\ StartUpdate(1)
    \/ ncalls < MaxAllCalls /\ StartShopGetOrCreate(1)
    \/ ncalls < MaxAllCalls /\ StartReceiptGetOrCreate(1, {"r1", "r2"}, {Place("a1", "c1", "md")}, {None},
                                  {"u1"}, {None, Some("u2")}, {<<>>, <<"n1">>})
    \/ ncalls < MaxAllCalls /\ StartAddShopId(1, {2}, {"r1", "r2"}, {Place("a1", "c1", "md")}, {"u1"}, {None})
    \/ ncalls < MaxAllCalls /\ StartGetById(1, {"r1", "r2"})
    \/ ncalls < MaxAllCalls /\ StartGetByUrl(1, {"u1", "u3"})
    \/ UidFind(1)
    \/ UidReadUser(1)
    \/ UidCreateUser(1)
    \/ UidCreateIdentity(1)
    \/ FindRead(1)
    \/ CreateIdentity(1)
    \/ UpdateIdentity(1)
    \/ ShopFind(1)
    \/ ShopCreate(1)
    \/ GocShop(1)
    \/ GocItem(1)
    \/ GocUpsert(1)
    \/ GocUrl(1)
    \/ GocCanonical(1)
    \/ AddShop(1)
    \/ RcpRead(1)
    \/ UrlRead(1)
    \/ UrlReadReceipt(1)

\* One request at a time, any operation of the three handlers.
SpecAll == InitAll /\ [][NextAll]_vars

\* ---------------------------------------- the store calls of each operation
\* A planned store call: its table, and whether use_table(table) is called just before it
\* (select) or the call relies on the selection made earlier in the operation.
Selected(t) == [select |-> TRUE, table |-> t]
Kept(t) == [select |-> FALSE, table |-> t]

\* UserIdentityHandler.find, create, update: one call on USER_IDENTITY.
IdentityPlan == <<Selected("user_identity")>>

GetOrCreateUserPlansNoUserSelect ==
    {<<Selected("user_identity"), Kept("user")>>,
     <<Selected("user_identity"), Kept("user"), Selected("user_identity")>>}

\* get_or_create_user_by_identity: find, then read the user; or find, insert the user, create.
GetOrCreateUserPlans ==
    {<<Selected("user_identity"), Selected("user")>>,
     <<Selected("user_identity"), Selected("user"), Selected("user_identity")>>}

\* ShopHandler.get_or_create: read_many; create_one under the same selection.
ShopPlans == {<<Selected("shop")>>, <<Selected("shop"), Kept("shop")>>}

\* SfsMdReceiptHandler.get_or_create: shop, one read per purchase line, upsert, URL insert,
\* and the canonical URL's insert under the same selection.
ReceiptPlans ==
    {<<Selected("shop")>> \o items \o <<Selected("receipt"), Selected("receipt_url")>> \o canonical :
        items \in {<<>>, <<Selected("shop_item")>>},
        canonical \in {<<>>, <<Kept("receipt_url")>>}}

\* add_shop_id and get_by_id: one call on RECEIPT.
ReceiptPlan == <<Selected("receipt")>>

\* get_by_url: read the URL row; then the receipt.
GetByUrlPlans ==
    {<<Selected("receipt_url")>>, <<Selected("receipt_url"), Selected("receipt")>>}

\* The step before planned call n: its use_table, or the call itself.
BeforeCall(plan, n) == IF plan[n].select THEN "sc_select" ELSE "sc_call"

\* Requests per run of the store-call specification.
MaxTableCalls == 2

StartStoreCalls(p, name, plans) ==
    \E plan \in plans :
        /\ ncalls < MaxTableCalls
        /\ Begin(p, "store_calls", [name |-> name, plan |-> plan], "sc_select",
              [index |-> 0, issued |-> <<>>, own |-> FALSE])

\* db.use_table(table) on the store object the requests share: the selection is now this
\* request's and no longer any other's.
SelectTable(p) ==
    /\ pc[p] = "sc_select"
    /\ current_table' = [current_table EXCEPT ![1] = call[p].args.plan[loc[p].index + 1].table]
    /\ loc' = [q \in Procs |->
                  IF q = p THEN [loc[p] EXCEPT !.own = TRUE]
                  ELSE IF pc[q] \in {"sc_call", "sc_select"} THEN [loc[q] EXCEPT !.own = FALSE]
                  ELSE loc[q]]
    /\ Goto(p, "sc_call")
    /\ UNCHANGED <<db, ret>>
    /\ Frame

\* The read or write after it: issued against the table the store object has selected.
IssueCall(p) ==
    /\ pc[p] = "sc_call"
    /\ LET plan == call[p].args.plan
           n == loc[p].index + 1
       IN  /\ loc' = [loc EXCEPT ![p].index = n,
                                 ![p].issued = Append(@, [own |-> loc[p].own, table |-> current_table[1]])]
           /\ IF n = Len(plan)
              THEN Return(p, None)
              ELSE Goto(p, BeforeCall(plan, n + 1)) /\ UNCHANGED ret
    /\ UNCHANGED <<db, current_table>>
    /\ Frame

InitTables ==
    /\ db = EmptyDb
    /\ unique = FALSE
    /\ InitFrame

NextTables ==
    \E p \in Procs :
        \/ StartStoreCalls(p, "find", {IdentityPlan})
        \/ StartStoreCalls(p, "create", {IdentityPlan})
        \/ StartStoreCalls(p, "update", {IdentityPlan})
        \/ StartStoreCalls(p, "get_or_create_user_by_identity", GetOrCreateUserPlans)
        \/ StartStoreCalls(p, "shop_get_or_create", ShopPlans)
        \/ StartStoreCalls(p, "receipt_get_or_create", ReceiptPlans)
        \/ StartStoreCalls(p, "add_shop_id", {ReceiptPlan})
        \/ StartStoreCalls(p, "get_by_id", {ReceiptPlan})
        \/ StartStoreCalls(p, "get_by_url", GetByUrlPlans)
        \/ SelectTable(p)
        \/ IssueCall(p)

\* Two requests on one store object, interleaving between any two store calls.
SpecTables == InitTables /\ [][NextTables]_vars

PlacePlaces == ShopPlaces \cup {Place("a2", "c1", "md")}

NextPlace ==
    \/ ShopStep(1)
    \/ StartReceiptGetOrCreate(1, {"r1"}, PlacePlaces, {None}, {"u1"}, {None}, {<<>>})
    \/ GocShop(1)
    \/ GocUpsert(1)
    \/ GocUrl(1)

\* Shop requests followed by receipt submissions, over stores with a legacy shop row.
SpecPlace == InitShop /\ [][NextPlace]_vars
\* ---------------------------------------------------------------- properties
\* Rows added to table t between two stores.
Added(before, after, t) == Len(after[t]) - Len(before[t])

\* The previous call ran operation op to completion (it returned, it did not raise).
PrevDone(op) == prev.op = op /\ prev.status = "done"

\* Request p has returned from operation op.
Done(p, op) == pc[p] = "done" /\ call[p].op = op

\* -- get_or_create_user_by_identity
IdentityRows(store, id, provider) == MatchIdx(store["user_identity"], [id |-> id, provider |-> provider])

\* Two sequential completed calls with the same (id, provider).
SameIdentityTwice ==
    /\ Done(1, "get_or_create_user_by_identity")
    /\ PrevDone("get_or_create_user_by_identity")
    /\ prev.args.id = call[1].args.id
    /\ prev.args.provider = call[1].args.provider

\* C1, as amended: two sequential completed get_or_create_user_by_identity calls with the
\* same (id, provider) return a User with the same id; the second call writes nothing; the
\* first adds exactly one User row and one UserIdentity row when no identity row for
\* (id, provider) existed before it, and no row at all when one existed.
C1_SameUserAndRowsAdded ==
    SameIdentityTwice =>
        LET existed == IdentityRows(prev.pre, prev.args.id, prev.args.provider) # {}
        IN  /\ ret[1][1].id = prev.ret[1].id
            /\ db = call[1].pre
            /\ Added(prev.pre, db, "user") = IF existed THEN 0 ELSE 1
            /\ Added(prev.pre, db, "user_identity") = IF existed THEN 0 ELSE 1

\* C1 as stated: from any store state the two calls add exactly one row of each kind.
C1_AsStated ==
    SameIdentityTwice =>
        /\ ret[1][1].id = prev.ret[1].id
        /\ Added(prev.pre, db, "user") = 1
        /\ Added(prev.pre, db, "user_identity") = 1

\* The first of the two calls created the user and the identity, the second found them.
C1_Witness ==
    /\ SameIdentityTwice
    /\ IdentityRows(prev.pre, prev.args.id, prev.args.provider) = {}
    /\ Added(prev.pre, prev.post, "user") = 1
    /\ Added(prev.pre, prev.post, "user_identity") = 1
    /\ prev.args.email # call[1].args.email
    /\ ret[1][1].id = prev.ret[1].id

\* -- ShopHandler.get_or_create
OsmIdRows(store, osm_id) == MatchIdx(store["shop"], [osm_id |-> osm_id])

\* The osm_id of the shop the previous call submitted.
PrevShopOsmId == ShopRequest(prev.args.type, prev.args.key, prev.args.preset, prev.args.place).osm_id

\* Two sequential completed calls whose shops carry the same osm_id.
SameOsmIdTwice ==
    /\ Done(1, "shop_get_or_create")
    /\ PrevDone("shop_get_or_create")
    /\ PrevShopOsmId = loc[1].shop.osm_id

\* C2: of two sequential completed get_or_create calls whose shops have the same osm_id
\* (whatever their other fields), the second returns the id and the osm_id the first returned,
\* and the shop table holds exactly one row with that osm_id afterwards.
C2_IdempotentOnOsmId ==
    SameOsmIdTwice =>
        /\ ret[1][1].id = prev.ret[1].id
        /\ ret[1][1].id # None
        /\ ret[1][1].osm_id = prev.ret[1].osm_id
        /\ ret[1][1].osm_id = loc[1].shop.osm_id
        /\ Cardinality(OsmIdRows(db, loc[1].shop.osm_id)) = 1

\* The first call inserted the shop; the second came with another address, company and country.
C2_Witness ==
    /\ SameOsmIdTwice
    /\ Added(prev.pre, prev.post, "shop") = 1
    /\ prev.args.place # call[1].args.place
    /\ ret[1][1].id = prev.ret[1].id

\* -- receipts: get_by_id, get_by_url, get_or_create
\* The receipt ids the ReceiptUrl rows of a URL point to.
RegisteredIds(store, url) ==
    {store["receipt_url"][i].receipt_id : i \in MatchIdx(store["receipt_url"], [url |-> url])}

\* C3, as amended: get_by_url of a URL no ReceiptUrl row carries returns None; get_by_url of
\* a URL whose rows all point to one receipt id returns what get_by_id of that id returns, a
\* receipt; and a completed get_or_create(receipt) leaves a row for receipt_url, and for
\* receipt_canonical_url when present, that points to receipt.id, whose row exists.
C3_UrlLookupAgreesWithIdLookup ==
    /\ Done(1, "get_by_url") =>
        LET ids == RegisteredIds(db, call[1].args.url)
        IN  /\ ids = {} => ret[1] = None
            /\ \A id \in ids : ids = {id} => ret[1] # None /\ ret[1] \in GetById(db["receipt"], id)
    /\ Done(1, "receipt_get_or_create") =>
        LET receipt == ret[1][1]
        IN  /\ receipt.id \in RegisteredIds(db, receipt.receipt_url)
            /\ receipt.receipt_canonical_url # None =>
                   receipt.id \in RegisteredIds(db, receipt.receipt_canonical_url[1])
            /\ None \notin GetById(db["receipt"], receipt.id)

\* C3 as stated: after any completed get_or_create(receipt), get_by_url of its URLs returns
\* the receipt get_by_id(receipt.id) returns.
C3_AsStated ==
    ( /\ Done(1, "get_by_url")
      /\ PrevDone("receipt_get_or_create")
      /\ \/ call[1].args.url = prev.args.url
         \/ Some(call[1].args.url) = prev.args.canonical )
    => /\ ret[1] # None
       /\ ret[1] \in GetById(db["receipt"], prev.args.id)

\* A receipt was submitted with a canonical URL and then looked up by that canonical URL.
C3_Witness ==
    /\ Done(1, "get_by_url")
    /\ PrevDone("receipt_get_or_create")
    /\ Some(call[1].args.url) = prev.args.canonical
    /\ call[1].args.url # prev.args.url
    /\ RegisteredIds(db, call[1].args.url) = {prev.args.id}
    /\ ret[1] # None
    /\ ret[1][1].id = prev.args.id

\* C4: add_shop_id never returns normally when update_one answered False (it must raise
\* HTTP 500 "Failed to add shop to receipt" instead).
C4_RaisesWhenUpdateFails ==
    Done(1, "add_shop_id") => loc[1].updated = Some(TRUE)

\* Rows of the receipt table with the id.
ReceiptRows(store, id) == MatchIdx(store["receipt"], [id |-> id])

\* C5: no two rows of the receipt table share an id; once get_or_create has upserted, the
\* table holds exactly one row with the receipt's id, that row is the submitted receipt, and
\* the table grew by one row only if no row had the id before the call.
C5_OneRowPerReceiptId ==
    /\ \A i, j \in DOMAIN db["receipt"] : db["receipt"][i].id = db["receipt"][j].id => i = j
    /\ (call[1].op = "receipt_get_or_create" /\ pc[1] \in {"done", "goc_canonical", "goc_url"}) =>
        LET receipt == loc[1].receipt
            existed == ReceiptRows(call[1].pre, receipt.id) # {}
        IN  /\ Cardinality(ReceiptRows(db, receipt.id)) = 1
            /\ \A i \in ReceiptRows(db, receipt.id) : db["receipt"][i] = ReceiptDump(receipt)
            /\ Added(call[1].pre, db, "receipt") = IF existed THEN 0 ELSE 1

\* The same receipt id submitted again with another URL: the row was replaced, none added.
C5_Witness ==
    /\ Done(1, "receipt_get_or_create")
    /\ PrevDone("receipt_get_or_create")
    /\ prev.args.id = call[1].args.id
    /\ prev.args.url # call[1].args.url
    /\ Added(prev.pre, prev.post, "receipt") = 1
    /\ Added(call[1].pre, db, "receipt") = 0
    /\ \E i \in ReceiptRows(db, call[1].args.id) : db["receipt"][i].receipt_url = call[1].args.url

\* -- ShopHandler.get_or_create, found path
LegacyFields == {"address", "company_id", "country_code", "osm_data"}

\* C6: when the lookup finds a row, the returned shop takes each of country_code,
\* company_id, address and osm_data from the incoming shop exactly when the stored field is
\* null, and from the stored row otherwise; id, osm_id, creator_user_id and creation_time
\* are the stored row's.
C6_BackfillExactlyNullFields ==
    (Done(1, "shop_get_or_create") /\ loc[1].found # None) =>
        LET row == loc[1].found[1]
            incoming == loc[1].shop
            returned == ret[1][1]
        IN  /\ \A f \in LegacyFields :
                   returned[f] = IF row[f] = None THEN incoming[f] ELSE row[f]
            /\ returned.id = Some(row.id)
            /\ returned.osm_id = row.osm_id
            /\ returned.creator_user_id = UUID(row.creator_user_id)
            /\ returned.creation_time = row.creation_time

\* A legacy row without address but with a company, found by a shop with another company.
C6_Witness ==
    /\ Done(1, "shop_get_or_create")
    /\ loc[1].found # None
    /\ loc[1].found[1].address = None
    /\ loc[1].found[1].company_id # None
    /\ loc[1].found[1].company_id # loc[1].shop.company_id
    /\ ret[1][1].address = loc[1].shop.address
    /\ ret[1][1].company_id = loc[1].found[1].company_id
    /\ loc[1].found[1].creation_time # loc[1].shop.creation_time

\* -- Shop construction: the derived osm_id
IsDigits(s) == \A i \in DOMAIN s : \E d \in DOMAIN DigitChars : DigitChars[d] = s[i]

\* The key a decimal text denotes, as limbs: the last LimbDigits digits and those before them.
KeyOfDigits(s) ==
    IF Len(s) <= LimbDigits THEN Key(0, ParseInt(s))
    ELSE Key(ParseInt(SubSeq(s, 1, Len(s) - LimbDigits)),
             ParseInt(SubSeq(s, Len(s) - LimbDigits + 1, Len(s))))

\* A Shop was constructed from osm_data without an osm_id.
Derived == Done(1, "Shop") /\ call[1].args.preset = None

\* C7: a Shop constructed without osm_id gets a non-null osm_id "<code>:<key>": code is 1
\* for NODE, 2 for RELATION, 3 for WAY; key is the decimal text of the OSM key (no leading
\* zero, no loss for key 0 or keys above 2^32); two shops with the same (type, key) get the
\* same osm_id.
C7_DerivedOsmId ==
    Derived =>
        LET osm_id == ret[1][1].osm_id
            type == call[1].args.type
            key == call[1].args.key
        IN  /\ osm_id # None
            /\ Len(osm_id[1]) >= 3
            /\ osm_id[1][1] = CASE type = "node" -> "1" [] type = "relation" -> "2" [] type = "way" -> "3"
            /\ osm_id[1][2] = ":"
            /\ LET digits == SubSeq(osm_id[1], 3, Len(osm_id[1]))
               IN  /\ IsDigits(digits)
                   /\ digits[1] = "0" => Len(digits) = 1
                   /\ KeyOfDigits(digits) = key
            /\ (type = "node" /\ key = Key(0, 0)) => osm_id = Some(<<"1", ":", "0">>)
            /\ (type = "node" /\ key = Key(99999, 99999)) =>
                   osm_id = Some(<<"1", ":", "9", "9", "9", "9", "9", "9", "9", "9", "9", "9">>)
            /\ (type = "way" /\ key = Key(1, 7)) => osm_id = Some(<<"3", ":", "1", "0", "0", "0", "0", "7">>)
            /\ ( /\ PrevDone("Shop")
                 /\ prev.args.preset = None
                 /\ prev.args.type = type
                 /\ prev.args.key = key ) => prev.ret[1].osm_id = osm_id

\* A WAY with key 4294967297 (2^32 + 1), after a shop with the same type and key at another address.
C7_Witness ==
    /\ Derived
    /\ call[1].args.type = "way"
    /\ call[1].args.key = Key(42949, 67297)
    /\ PrevDone("Shop")
    /\ prev.args.preset = None
    /\ prev.args.type = "way"
    /\ prev.args.key = Key(42949, 67297)
    /\ prev.args.address # call[1].args.address
    /\ ret[1][1].osm_id = Some(<<"3", ":", "4", "2", "9", "4", "9", "6", "7", "2", "9", "7">>)

\* -- ShopHandler.get_or_create with a caller-supplied osm_id
\* C8: a shop constructed with an explicit osm_id keeps exactly that value whatever its
\* osm_data, and get_or_create looks it up and stores it unchanged: a row it finds carries
\* the supplied osm_id; a row it inserts carries it, and then no row carried it before.
C8_SuppliedOsmIdKept ==
    (call[1].op = "shop_get_or_create" /\ call[1].args.preset # None) =>
        /\ loc[1].shop.osm_id = call[1].args.preset
        /\ pc[1] = "done" =>
            /\ ret[1][1].osm_id = call[1].args.preset
            /\ loc[1].found # None => loc[1].found[1].osm_id = call[1].args.preset
            /\ loc[1].found = None =>
                /\ OsmIdRows(call[1].pre, call[1].args.preset) = {}
                /\ Added(call[1].pre, db, "shop") = 1
                /\ db["shop"][Len(db["shop"])].osm_id = call[1].args.preset

\* A WAY submitted with the osm_id "1:0" (its osm_data would derive "3:0") was inserted under "1:0".
C8_Witness ==
    /\ Done(1, "shop_get_or_create")
    /\ call[1].args.preset = Some(<<"1", ":", "0">>)
    /\ call[1].args.type = "way"
    /\ DeriveOsmId(loc[1].shop.osm_data[1]) = <<"3", ":", "0">>
    /\ loc[1].found = None
    /\ db["shop"][Len(db["shop"])].osm_id = Some(<<"1", ":", "0">>)
    /\ ret[1][1].osm_id = Some(<<"1", ":", "0">>)

\* -- SfsMdReceiptHandler.get_or_create: shop and item resolution
\* C9: when a shop matches the receipt's (shop_address, company_id, country_code), the
\* returned receipt has that shop's integer id as shop_id; every purchase line whose name has
\* a catalog item of that shop has that item's id as item_id and the item's status (PENDING
\* when the item has none); and the receipt row persisted is the returned receipt.
C9_ShopAndItemsResolved ==
    Done(1, "receipt_get_or_create") =>
        LET receipt == ret[1][1]
            args == call[1].args
            shops == MatchIdx(db["shop"], [address |-> Some(args.place.address),
                                           company_id |-> Some(args.place.company_id),
                                           country_code |-> Some(args.place.country_code)])
        IN  shops # {} =>
            /\ \E s \in shops : receipt.shop_id = Some(db["shop"][s].id)
            /\ receipt.shop_id[1] \in Nat
            /\ Len(receipt.purchases) = Len(args.names)
            /\ \A n \in DOMAIN args.names :
                LET items == MatchIdx(db["shop_item"], [name |-> args.names[n], shop_id |-> receipt.shop_id[1]])
                IN  items # {} =>
                        \E k \in items :
                            /\ receipt.purchases[n].item_id = Some(UUID(db["shop_item"][k].id))
                            /\ receipt.purchases[n].status =
                                   IF "status" \in DOMAIN db["shop_item"][k]
                                   THEN db["shop_item"][k].status ELSE "pending"
            /\ \E i \in ReceiptRows(db, receipt.id) :
                /\ db["receipt"][i] = ReceiptDump(receipt)
                /\ ReceiptOfRow(db["receipt"][i]) = receipt

\* A receipt submitted with shop_id 2 at the address of shop 1, with a line the catalog of
\* shop 1 knows as approved and a line it does not know.
C9_Witness ==
    /\ Done(1, "receipt_get_or_create")
    /\ call[1].args.shop_id = Some(2)
    /\ call[1].args.names = <<"n1", "n3">>
    /\ ret[1][1].shop_id = Some(1)
    /\ ret[1][1].purchases[1].item_id = Some(UUID("i1"))
    /\ ret[1][1].purchases[1].status = "approved"
    /\ ret[1][1].purchases[2].item_id = None
    /\ \E i \in ReceiptRows(db, "r1") : db["receipt"][i].purchases[1].item_id = Some("i1")

\* -- two concurrent ShopHandler.get_or_create calls
\* Both requests returned after an empty lookup for the same osm_id.
BothInserted ==
    /\ \A p \in Procs : Done(p, "shop_get_or_create") /\ loc[p].found = None
    /\ loc[1].shop.osm_id = loc[2].shop.osm_id

\* C10: when two concurrent get_or_create calls for the same osm_id both pass the lookup
\* before either inserts and both return, a store without a uniqueness constraint holds two
\* rows with that osm_id and the callers got different ids; a store with the constraint never
\* holds two rows with one osm_id.
C10_ConcurrentShopRace ==
    /\ (~unique /\ BothInserted) =>
        /\ Cardinality(OsmIdRows(db, loc[1].shop.osm_id)) = 2
        /\ ret[1][1].id # ret[2][1].id
        /\ \A p \in Procs : \E i \in OsmIdRows(db, loc[1].shop.osm_id) : ret[p][1].id = Some(db["shop"][i].id)
    /\ unique =>
        \A i, j \in DOMAIN db["shop"] : db["shop"][i].osm_id = db["shop"][j].osm_id => i = j

\* Both lookups came back empty, both inserts went through: two rows, two ids.
C10_Witness ==
    /\ ~unique
    /\ BothInserted
    /\ Cardinality(OsmIdRows(db, loc[1].shop.osm_id)) = 2
    /\ ret[1][1].id # ret[2][1].id

\* -- get_or_create_user_by_identity: failure between the two inserts
\* UserIdentity rows of the store that reference the user.
ReferringIdentities(store, user) ==
    {i \in DOMAIN store["user_identity"] : store["user_identity"][i].user_id = UuidStr(user.id)}

\* The call of request p inserted its User row and then raised.
IdentityInsertFailed(p) ==
    /\ call[p].op = "get_or_create_user_by_identity"
    /\ pc[p] = "failed"
    /\ loc[p].new_user # None

\* C11: when the UserIdentity insert fails after the User insert succeeded, the call ends
\* with the error (no value is returned), the User row it inserted stays in the store and no
\* UserIdentity row references it; and a call that inserted a User returns normally only
\* when the identity row for it is in the store.
C11_OrphanUserOnIdentityFailure ==
    /\ IdentityInsertFailed(1) =>
        /\ ret[1] = None
        /\ Added(call[1].pre, db, "user") = 1
        /\ \E i \in DOMAIN db["user"] : UserOfRow(db["user"][i]) = loc[1].new_user[1]
        /\ ReferringIdentities(db, loc[1].new_user[1]) = {}
        /\ db["user_identity"] = call[1].pre["user_identity"]
    /\ (Done(1, "get_or_create_user_by_identity") /\ loc[1].new_user # None) =>
        \E i \in ReferringIdentities(db, loc[1].new_user[1]) :
            /\ db["user_identity"][i].id = call[1].args.id
            /\ db["user_identity"][i].provider = call[1].args.provider

\* The identity insert failed: one User row more than before, referenced by no identity.
C11_Witness ==
    /\ IdentityInsertFailed(1)
    /\ Added(call[1].pre, db, "user") = 1
    /\ Added(call[1].pre, db, "user_identity") = 0
    /\ ReferringIdentities(db, loc[1].new_user[1]) = {}

\* -- lookups that miss
\* ReceiptUrl rows stored under the key of the URL.
UrlKeyRows(store, url) == MatchIdx(store["receipt_url"], [id |-> MakeHash(url)])

\* C12: a lookup never raises on a miss. find returns None when no UserIdentity row matches
\* (id, provider); get_by_id returns None when no receipt row has the id; get_by_url returns
\* None when no ReceiptUrl row is stored under the URL's key, and then the receipt table is
\* never selected, and also when such a row exists but no receipt row has its receipt_id.
C12_MissIsNone ==
    /\ call[1].op \in {"find", "get_by_id", "get_by_url"} => pc[1] # "failed"
    /\ Done(1, "find") =>
        (IdentityRows(db, call[1].args.id, call[1].args.provider) = {} <=> ret[1] = None)
    /\ Done(1, "get_by_id") =>
        (ReceiptRows(db, call[1].args.receipt_id) = {} <=> ret[1] = None)
    /\ Done(1, "get_by_url") =>
        LET rows == UrlKeyRows(db, call[1].args.url)
        IN  /\ rows = {} => ret[1] = None /\ current_table[1] = "receipt_url"
            /\ (\A i \in rows : ReceiptRows(db, db["receipt_url"][i].receipt_id) = {}) => ret[1] = None

\* After a find that missed: get_by_url of a URL whose ReceiptUrl row names a receipt that
\* is not stored read the receipt table and returned None.
C12_Witness ==
    /\ Done(1, "get_by_url")
    /\ UrlKeyRows(db, call[1].args.url) # {}
    /\ \A i \in UrlKeyRows(db, call[1].args.url) : ReceiptRows(db, db["receipt_url"][i].receipt_id) = {}
    /\ current_table[1] = "receipt"
    /\ ret[1] = None
    /\ PrevDone("find")
    /\ prev.ret = None
    /\ db["user_identity"] # <<>>

\* -- the API boundary
\* C13: every receipt lookup endpoint, in both route modules, answers 404 "Receipt not
\* found" when the handler returned None, and never a success response without a receipt.
C13_NoneBecomes404 ==
    ((Done(1, "route_get_by_id") \/ Done(1, "route_get_by_url")) /\ loc[1].result = None) =>
        /\ ret[1][1].status_code = 404
        /\ ret[1][1].detail = "Receipt not found"

\* -- SfsMdReceiptHandler.get_or_create: the ReceiptUrl inserts
\* C14: a get_or_create call that returns has added exactly one ReceiptUrl row, for
\* receipt_url, when receipt_canonical_url is absent, and exactly two, for receipt_url and
\* then for receipt_canonical_url, when it is present; each row added is keyed by the hash
\* of its URL and carries the id of the receipt.
C14_UrlInsertsPerCall ==
    Done(1, "receipt_get_or_create") =>
        LET receipt == ret[1][1]
            before == Len(call[1].pre["receipt_url"])
            urls == db["receipt_url"]
        IN  /\ Len(urls) = before + (IF receipt.receipt_canonical_url = None THEN 1 ELSE 2)
            /\ SubSeq(urls, 1, before) = call[1].pre["receipt_url"]
            /\ urls[before + 1].url = receipt.receipt_url
            /\ receipt.receipt_canonical_url # None =>
                   urls[before + 2].url = receipt.receipt_canonical_url[1]
            /\ \A i \in (before + 1)..Len(urls) :
                   /\ urls[i].receipt_id = receipt.id
                   /\ urls[i].id = MakeHash(urls[i].url)
                   /\ receipt.id = call[1].args.id

\* A receipt with receipt_url u1 and canonical URL u2 was stored: two rows more.
C14_Witness ==
    /\ Done(1, "receipt_get_or_create")
    /\ call[1].args.url = "u1"
    /\ call[1].args.canonical = Some("u2")
    /\ Added(call[1].pre, db, "receipt_url") = 2
    /\ PrevDone("receipt_get_or_create")
    /\ prev.args.canonical = None
    /\ Added(prev.pre, prev.post, "receipt_url") = 1

\* The call before this one was a completed get_or_create with the same receipt_url.
SameUrlAgain ==
    /\ call[1].op = "receipt_get_or_create"
    /\ PrevDone("receipt_get_or_create")
    /\ prev.args.url = call[1].args.url

\* The call raised at a ReceiptUrl insert: the last table selected is receipt_url.
UrlInsertFailed(p) ==
    /\ call[p].op = "receipt_get_or_create"
    /\ pc[p] = "failed"
    /\ current_table[p] = "receipt_url"

\* C15: ReceiptUrl rows are inserted, not upserted. When get_or_create is called again with
\* the receipt_url of the completed call before it: without a uniqueness constraint a call
\* that returns leaves one more row under the key of that URL, two at least; with the
\* constraint the call never gets past the first ReceiptUrl insert, no key is stored twice,
\* and when it raises there the receipt row has already been upserted.
C15_UrlRowsNotUpserted ==
    SameUrlAgain =>
        LET url == call[1].args.url
            receipt == loc[1].receipt
        IN  /\ (~unique /\ pc[1] = "done") =>
                /\ Cardinality(UrlKeyRows(db, url)) >= Cardinality(UrlKeyRows(prev.pre, url)) + 2
                /\ Cardinality(UrlKeyRows(db, url)) > Cardinality(UrlKeyRows(call[1].pre, url))
            /\ unique =>
                /\ pc[1] \notin {"done", "goc_canonical"}
                /\ Cardinality(UrlKeyRows(db, url)) = 1
                /\ UrlInsertFailed(1) =>
                    /\ db["receipt"] = GocWrite(call[1].pre["receipt"], ReceiptDump(receipt))
                    /\ ReceiptRows(db, receipt.id) # {}
                    /\ db["receipt_url"] = call[1].pre["receipt_url"]

\* Under the constraint, the second submission of URL u1, for another receipt, raised at
\* the ReceiptUrl insert after its receipt row was added.
C15_Witness ==
    /\ SameUrlAgain
    /\ unique
    /\ UrlInsertFailed(1)
    /\ prev.args.id # call[1].args.id
    /\ Added(call[1].pre, db, "receipt") = 1
    /\ ReceiptRows(db, call[1].args.id) # {}

\* Without the constraint, the second submission left two rows under one key.
C15_WitnessDuplicate ==
    /\ SameUrlAgain
    /\ ~unique
    /\ pc[1] = "done"
    /\ Cardinality(UrlKeyRows(db, call[1].args.url)) = 2

\* -- SfsMdReceiptHandler.get_or_create: the order of its store calls
\* Shop rows matching the place of the receipt.
PlaceShops(store, receipt) == MatchIdx(store["shop"], ShopFilter(receipt))

\* The stored row of the receipt carries what the lookups resolved.
RowResolved(store, receipt) ==
    /\ \E i \in ReceiptRows(store, receipt.id) : store["receipt"][i] = ReceiptDump(receipt)
    /\ PlaceShops(store, receipt) # {} =>
        /\ \E s \in PlaceShops(store, receipt) : receipt.shop_id = Some(store["shop"][s].id)
        /\ \A n \in DOMAIN receipt.purchases :
            LET items == MatchIdx(store["shop_item"],
                                  [name |-> receipt.purchases[n].name, shop_id |-> receipt.shop_id[1]])
            IN  items # {} =>
                    \E k \in items : receipt.purchases[n].item_id = Some(UUID(store["shop_item"][k].id))

\* One step of a get_or_create call, read off the table it selects and what it changes.
OrderedStep ==
    LET was == current_table[1]
        now == current_table'[1]
        receipt == loc[1].receipt
        args == call[1].args
        untouched(t) == db[t] = call[1].pre[t]
    IN  /\ (now = "shop" /\ was # "shop") =>
            /\ loc[1].index = 0
            /\ receipt = SfsMdReceipt(args.id, args.place, args.shop_id, args.url, args.canonical, args.names)
            /\ untouched("receipt") /\ untouched("receipt_url")
            /\ db' = db
        /\ loc'[1].index # loc[1].index =>
            /\ was \in {"shop", "shop_item"}
            /\ now = "shop_item"
            /\ PlaceShops(db, receipt) # {}
            /\ untouched("receipt") /\ untouched("receipt_url")
            /\ db' = db
        /\ (now = "receipt" /\ was # "receipt") =>
            /\ was \in {"shop", "shop_item"}
            /\ PlaceShops(db, receipt) # {} => loc[1].index = Len(receipt.purchases)
            /\ untouched("receipt") /\ untouched("receipt_url")
            /\ pc'[1] # "failed" => RowResolved(db', receipt)
        /\ (now = "receipt_url" /\ (was # "receipt_url" \/ db'["receipt_url"] # db["receipt_url"])) =>
            /\ was = "receipt"
            /\ untouched("receipt_url")
            /\ RowResolved(db, receipt)
            /\ db'["receipt"] = db["receipt"]

\* C16: in every execution of get_or_create the shop lookup comes first, every catalog-item
\* lookup comes after it and before the receipt upsert, and the upsert comes before any
\* ReceiptUrl insert, so the receipt row written carries the resolved shop_id and item_id.
C16_LookupsThenUpsertThenUrls ==
    [][(ncalls' = ncalls /\ call[1].op = "receipt_get_or_create") => OrderedStep]_vars

\* A receipt of shop 1 with the lines n3 (not in its catalog) and n2 (item i2) was stored
\* resolved, and its URL inserted last.
C16_Witness ==
    /\ Done(1, "receipt_get_or_create")
    /\ call[1].args.names = <<"n3", "n2">>
    /\ call[1].args.place = Place("a1", "c1", "md")
    /\ current_table[1] = "receipt_url"
    /\ loc[1].index = 2
    /\ \E i \in ReceiptRows(db, "r1") :
        /\ db["receipt"][i].shop_id = Some(1)
        /\ db["receipt"][i].purchases[1].item_id = None
        /\ db["receipt"][i].purchases[2].item_id = Some("i2")
    /\ Added(call[1].pre, db, "receipt_url") = 1

\* -- User and Shop rows are write-once
\* Every row of table t in store before is, in the same place and unchanged, in store after.
RowsKept(before, after, t) ==
    /\ Len(after[t]) >= Len(before[t])
    /\ SubSeq(after[t], 1, Len(before[t])) = before[t]

\* C17: whatever handler operation runs, every User row and every Shop row present before a
\* step is present unchanged after it: these rows are only ever added.
C17_UserAndShopRowsWriteOnce ==
    [][RowsKept(db, db', "user") /\ RowsKept(db, db', "shop")]_vars

\* After a user and then a shop were added to a store that held one of each, the rows that
\* were there before the two calls are still the first rows.
C17_Witness ==
    /\ Done(1, "shop_get_or_create")
    /\ PrevDone("get_or_create_user_by_identity")
    /\ Added(prev.pre, prev.post, "user") = 1
    /\ Added(call[1].pre, db, "shop") = 1
    /\ prev.pre["user"] # <<>>
    /\ prev.pre["shop"] # <<>>
    /\ RowsKept(prev.pre, db, "user")
    /\ RowsKept(prev.pre, db, "shop")

\* -- UserIdentity rows are keyed by (id, provider)
\* Two sequential completed get_or_create_user_by_identity calls, one id, two providers.
SameIdTwoProviders ==
    /\ Done(1, "get_or_create_user_by_identity")
    /\ PrevDone("get_or_create_user_by_identity")
    /\ prev.args.id = call[1].args.id
    /\ prev.args.provider # call[1].args.provider

\* C18: after any sequence of sequential get_or_create_user_by_identity calls no two
\* UserIdentity rows share (id, provider); the same id under two providers has one row per
\* provider, the second call adding its own row and user when its provider had none; and
\* find(id, p) returns only a stored row whose id is id and whose provider is p.
C18_IdentityKeyedByIdAndProvider ==
    /\ \A i, j \in DOMAIN db["user_identity"] :
        (/\ db["user_identity"][i].id = db["user_identity"][j].id
         /\ db["user_identity"][i].provider = db["user_identity"][j].provider) => i = j
    /\ SameIdTwoProviders =>
        /\ Cardinality(IdentityRows(db, call[1].args.id, call[1].args.provider)) = 1
        /\ Cardinality(IdentityRows(db, call[1].args.id, prev.args.provider)) = 1
        /\ IdentityRows(call[1].pre, call[1].args.id, call[1].args.provider) = {} =>
            /\ Added(call[1].pre, db, "user_identity") = 1
            /\ Added(call[1].pre, db, "user") = 1
            /\ ret[1][1].id # prev.ret[1].id
    /\ (Done(1, "find") /\ ret[1] # None) =>
        /\ ret[1][1].provider = call[1].args.provider
        /\ ret[1][1].id = call[1].args.id
        /\ \E i \in DOMAIN db["user_identity"] : IdentityOfRow(db["user_identity"][i]) = ret[1][1]

\* sub1 signed in with one provider, then with the other: two identity rows, two users; then
\* find for one of the two providers returned that provider's row.
C18_Witness ==
    /\ Done(1, "find")
    /\ ret[1] # None
    /\ prev.op = "get_or_create_user_by_identity"
    /\ prev.status = "done"
    /\ prev.args.id = call[1].args.id
    /\ prev.args.provider # call[1].args.provider
    /\ Cardinality({i \in DOMAIN db["user_identity"] : db["user_identity"][i].id = call[1].args.id}) = 2
    /\ Len(db["user"]) = 2

\* -- two concurrent get_or_create_user_by_identity calls
\* Both requests, for one (id, provider), saw find answer no row and inserted a User.
BothCreatedUser ==
    /\ \A p \in Procs : call[p].op = "get_or_create_user_by_identity" /\ loc[p].new_user # None
    /\ call[1].args.id = call[2].args.id
    /\ call[1].args.provider = call[2].args.provider

\* Request p raised at the identity insert and its User row is referenced by no identity.
OrphanedUser(p) ==
    /\ IdentityInsertFailed(p)
    /\ \E i \in DOMAIN db["user"] : UserOfRow(db["user"][i]) = loc[p].new_user[1]
    /\ ReferringIdentities(db, loc[p].new_user[1]) = {}

\* C19: when two concurrent get_or_create_user_by_identity calls for one new (id, provider)
\* both insert a User, two User rows exist for the identity; once both calls ended, a store
\* without the constraint on (id, provider) holds two identity rows for it if both returned,
\* and a store with the constraint holds at most one, one call at least having raised at the
\* identity insert with its User row orphaned.
C19_ConcurrentUserRace ==
    BothCreatedUser =>
        LET rows == IdentityRows(db, call[1].args.id, call[1].args.provider)
        IN  /\ loc[1].new_user[1].id # loc[2].new_user[1].id
            /\ \A p \in Procs : \E i \in DOMAIN db["user"] : UserOfRow(db["user"][i]) = loc[p].new_user[1]
            /\ (~unique /\ \A p \in Procs : pc[p] = "done") =>
                /\ Cardinality(rows) = 2
                /\ ret[1][1].id # ret[2][1].id
            /\ unique =>
                /\ Cardinality(rows) <= 1
                /\ (\A p \in Procs : Idle(p)) => \E p \in Procs : OrphanedUser(p)

\* Under the constraint: one call returned its user, the other raised and left an orphan.
C19_Witness ==
    /\ BothCreatedUser
    /\ unique
    /\ pc[1] = "done"
    /\ OrphanedUser(2)
    /\ Len(db["user"]) = 2
    /\ Cardinality(IdentityRows(db, call[1].args.id, call[1].args.provider)) = 1

\* Without the constraint: both calls returned, two users and two identity rows for one identity.
C19_WitnessDuplicate ==
    /\ BothCreatedUser
    /\ ~unique
    /\ \A p \in Procs : pc[p] = "done"
    /\ Len(db["user"]) = 2
    /\ Cardinality(IdentityRows(db, call[1].args.id, call[1].args.provider)) = 2

\* -- SfsMdReceiptHandler.get_or_create is not atomic
\* The call before this one was a get_or_create that raised after adding the row of its receipt.
PrevFailedAfterUpsert ==
    /\ prev.op = "receipt_get_or_create"
    /\ prev.status = "failed"
    /\ ReceiptRows(prev.pre, prev.args.id) = {}
    /\ ReceiptRows(prev.post, prev.args.id) # {}

\* C20: when a ReceiptUrl insert of get_or_create raises, the call returns nothing and the
\* receipt row written before it stays: get_by_id answers the receipt, while get_by_url of
\* the URL whose insert failed (receipt_url, or the canonical URL when the first insert went
\* through) answers None as long as no row is stored under that URL's key.
C20_ReceiptWithoutUrlMapping ==
    /\ UrlInsertFailed(1) =>
        LET receipt == loc[1].receipt
            first == Added(call[1].pre, db, "receipt_url") = 0
            failed == IF first THEN receipt.receipt_url ELSE receipt.receipt_canonical_url[1]
        IN  /\ ret[1] = None
            /\ db["receipt"] = GocWrite(call[1].pre["receipt"], ReceiptDump(receipt))
            /\ GetById(db["receipt"], receipt.id) = {Some(receipt)}
            /\ UrlKeyRows(db, failed) = {} => GetByUrl(db, failed) = {None}
            /\ ~first =>
                /\ Added(call[1].pre, db, "receipt_url") = 1
                /\ Some(receipt) \in GetByUrl(db, receipt.receipt_url)
    /\ (PrevFailedAfterUpsert /\ Done(1, "get_by_id") /\ call[1].args.receipt_id = prev.args.id) =>
        /\ ret[1] # None
        /\ ret[1][1].id = prev.args.id
        /\ ret[1][1].receipt_url = prev.args.url
    /\ (PrevFailedAfterUpsert /\ Done(1, "get_by_url") /\ UrlKeyRows(db, call[1].args.url) = {}) =>
        ret[1] = None

\* A submission raised at its first ReceiptUrl insert; the next request looked the receipt
\* up by that URL and got None, while the receipt row is stored.
C20_Witness ==
    /\ PrevFailedAfterUpsert
    /\ Added(prev.pre, prev.post, "receipt_url") = 0
    /\ Done(1, "get_by_url")
    /\ call[1].args.url = prev.args.url
    /\ ret[1] = None
    /\ GetById(db["receipt"], prev.args.id) # {None}

\* Only the canonical URL's insert raised: the receipt is found by its receipt_url.
C20_WitnessCanonical ==
    /\ UrlInsertFailed(1)
    /\ Added(call[1].pre, db, "receipt_url") = 1
    /\ GetByUrl(db, loc[1].receipt.receipt_canonical_url[1]) = {None}
    /\ GetByUrl(db, loc[1].receipt.receipt_url) = {Some(loc[1].receipt)}

\* -- SfsMdReceiptHandler.get_or_create: with and without a matching shop
\* The receipt as the caller of request p submitted it.
Submitted(p) ==
    SfsMdReceipt(call[p].args.id, call[p].args.place, call[p].args.shop_id, call[p].args.url,
                 call[p].args.canonical, call[p].args.names)

\* Catalog rows for purchase line n of the receipt under its shop_id.
LineItems(store, receipt, n) ==
    MatchIdx(store["shop_item"], [name |-> receipt.purchases[n].name, shop_id |-> receipt.shop_id[1]])

\* C21: when no stored shop matches the receipt's (shop_address, company_id, country_code),
\* get_or_create looks up no catalog item, leaves shop_id and every purchase line as
\* supplied, and still stores the receipt and its URL row; when a shop matches, it looks up
\* one catalog item per purchase line under (name, resolved shop_id), and a line without a
\* catalog item keeps a null item_id and its status.
C21_ItemLookupsOnlyWithShop ==
    (call[1].op = "receipt_get_or_create" /\ pc[1] # "goc_shop") =>
        LET receipt == loc[1].receipt
            matched == PlaceShops(db, Submitted(1)) # {}
        IN  /\ ~matched =>
                /\ pc[1] # "goc_item"
                /\ current_table[1] # "shop_item"
                /\ loc[1].index = 0
                /\ receipt = Submitted(1)
                /\ pc[1] = "done" =>
                    /\ ret[1] = Some(Submitted(1))
                    /\ \E i \in ReceiptRows(db, receipt.id) : db["receipt"][i] = ReceiptDump(Submitted(1))
                    /\ Added(call[1].pre, db, "receipt_url") = 1
            /\ matched =>
                /\ loc[1].index <= Len(receipt.purchases)
                /\ pc[1] \in {"done", "failed", "goc_upsert", "goc_url"} => loc[1].index = Len(receipt.purchases)
                /\ \A n \in 1..loc[1].index :
                    /\ receipt.purchases[n].name = call[1].args.names[n]
                    /\ LineItems(db, receipt, n) = {} => receipt.purchases[n] = Submitted(1).purchases[n]
                    /\ LineItems(db, receipt, n) # {} =>
                        \E k \in LineItems(db, receipt, n) :
                            receipt.purchases[n].item_id = Some(UUID(db["shop_item"][k].id))
                /\ \A n \in (loc[1].index + 1)..Len(receipt.purchases) :
                    receipt.purchases[n] = Submitted(1).purchases[n]

\* A receipt with two lines and shop_id 2, at a place no shop has, was stored as supplied
\* without an item lookup, after a receipt of shop 1 whose line n3 stayed unmatched.
C21_Witness ==
    /\ Done(1, "receipt_get_or_create")
    /\ PlaceShops(db, Submitted(1)) = {}
    /\ call[1].args.names = <<"n1", "n3">>
    /\ call[1].args.shop_id = Some(2)
    /\ ret[1] = Some(Submitted(1))
    /\ loc[1].index = 0
    /\ PrevDone("receipt_get_or_create")
    /\ PlaceShops(db, prev.ret[1]) # {}
    /\ prev.args.names = <<"n1", "n3">>
    /\ prev.ret[1].shop_id = Some(1)
    /\ prev.ret[1].purchases[1].item_id # None
    /\ prev.ret[1].purchases[2].item_id = None

\* -- get_or_create_user_by_identity: an identity without its user
\* Request p found an identity whose user_id names no User row, and has read the user table.
FoundDanglingIdentity(p) ==
    /\ call[p].op = "get_or_create_user_by_identity"
    /\ loc[p].identity # None
    /\ pc[p] # "uid_read_user"
    /\ MatchIdx(db["user"], [id |-> UuidStr(loc[p].identity[1].user_id)]) = {}

\* C22: when get_or_create_user_by_identity finds an identity whose user_id has no User
\* row, the call raises: it returns no User, creates no replacement User and writes nothing.
C22_DanglingIdentityRaises ==
    FoundDanglingIdentity(1) =>
        /\ pc[1] = "failed"
        /\ ret[1] = None
        /\ loc[1].new_user = None
        /\ db = call[1].pre
        /\ current_table[1] = "user"

\* An identity was created for user 2, who does not exist; signing in with it raised.
C22_Witness ==
    /\ FoundDanglingIdentity(1)
    /\ pc[1] = "failed"
    /\ PrevDone("create")
    /\ prev.args.id = call[1].args.id
    /\ prev.args.provider = call[1].args.provider
    /\ loc[1].identity[1].user_id = UUID(2)
    /\ Len(db["user"]) = 1

\* -- UserIdentityHandler.update
\* C23: update locates the row by the filter {id, provider} of the identity, sends a payload
\* without 'id' and 'provider', never raises, and returns the boolean update_one_by
\* answered: True with the matching rows updated, False with the store unchanged.
C23_UpdateByIdAndProvider ==
    /\ call[1].op = "update" => pc[1] # "failed"
    /\ Done(1, "update") =>
        LET args == call[1].args
            filter == loc[1].filter[1]
            data == loc[1].data[1]
        IN  /\ filter = [id |-> args.id, provider |-> args.provider]
            /\ DOMAIN data = {"user_id"}
            /\ data.user_id = UuidStr(args.user_id)
            /\ ret[1] = loc[1].updated
            /\ ret[1] \in {Some(FALSE), Some(TRUE)}
            /\ ret[1] = Some(TRUE) =>
                /\ IdentityRows(call[1].pre, args.id, args.provider) # {}
                /\ \A i \in DOMAIN db["user_identity"] :
                    db["user_identity"][i] =
                        IF i \in IdentityRows(call[1].pre, args.id, args.provider)
                        THEN [id |-> args.id, provider |-> args.provider, user_id |-> UuidStr(args.user_id)]
                        ELSE call[1].pre["user_identity"][i]
                /\ Len(db["user_identity"]) = Len(call[1].pre["user_identity"])
            /\ ret[1] = Some(FALSE) => db = call[1].pre
            /\ \A t \in TableNames \ {"user_identity"} : db[t] = call[1].pre[t]

\* The identity (sub1, google) of user 1 was moved to user 2; an identity created just
\* before under the other provider kept its user.
C23_Witness ==
    /\ Done(1, "update")
    /\ ret[1] = Some(TRUE)
    /\ call[1].args.id = "sub1"
    /\ call[1].args.provider = "google"
    /\ call[1].args.user_id = UUID(2)
    /\ PrevDone("create")
    /\ prev.args.id = "sub1"
    /\ prev.args.provider = "telegram"
    /\ prev.args.user_id = UUID(1)
    /\ db["user_identity"] # call[1].pre["user_identity"]
    /\ Len(db["user_identity"]) = 2

\* update for an identity that is not stored answered False.
C23_WitnessFalse ==
    /\ Done(1, "update")
    /\ ret[1] = Some(FALSE)
    /\ IdentityRows(db, call[1].args.id, call[1].args.provider) = {}

\* -- SfsMdReceiptHandler.add_shop_id
\* The receipt passed to the add_shop_id call of request p.
LinkedReceipt(p) ==
    SfsMdReceipt(call[p].args.id, call[p].args.place, call[p].args.previous, call[p].args.url, None, <<>>)

\* C24: an add_shop_id whose update_one answered True returns the receipt with shop_id set
\* to the given value (0 included, a previous shop_id replaced) and every other field as
\* passed in; it issued one update_one on the receipt table: the row with the receipt's id is
\* the whole serialized receipt with the new shop_id, every other row and table is as before.
C24_AddShopIdSetsOnlyShopId ==
    (Done(1, "add_shop_id") /\ loc[1].updated = Some(TRUE)) =>
        LET receipt == ret[1][1]
            passed == LinkedReceipt(1)
        IN  /\ receipt.shop_id = Some(call[1].args.shop_id)
            /\ \A f \in DOMAIN passed \ {"shop_id"} : receipt[f] = passed[f]
            /\ DOMAIN receipt = DOMAIN passed
            /\ current_table[1] = "receipt"
            /\ ReceiptRows(call[1].pre, receipt.id) # {}
            /\ Len(db["receipt"]) = Len(call[1].pre["receipt"])
            /\ \A i \in DOMAIN db["receipt"] :
                db["receipt"][i] = IF i \in ReceiptRows(call[1].pre, receipt.id)
                                   THEN ReceiptDump(receipt)
                                   ELSE call[1].pre["receipt"][i]
            /\ \A t \in TableNames \ {"receipt"} : db[t] = call[1].pre[t]

\* A receipt that carried shop_id 1, stored with shop_id 1, was linked to shop 0.
C24_Witness ==
    /\ Done(1, "add_shop_id")
    /\ loc[1].updated = Some(TRUE)
    /\ call[1].args.previous = Some(1)
    /\ call[1].args.shop_id = 0
    /\ ret[1][1].shop_id = Some(0)
    /\ \E i \in ReceiptRows(call[1].pre, call[1].args.id) : call[1].pre["receipt"][i].shop_id = Some(1)
    /\ \E i \in ReceiptRows(db, call[1].args.id) : db["receipt"][i].shop_id = Some(0)

SubmittedShop(p) ==
    ShopRequest(call[p].args.type, call[p].args.key, call[p].args.preset, call[p].args.place)

\* C26: when the lookup finds no row, get_or_create inserts the incoming shop once, with a
\* null id in the payload so that the store assigns it, and returns the incoming shop with
\* id set to the assigned identifier as an integer and every other field as supplied.
C26_NotFoundInsertsOnce ==
    (Done(1, "shop_get_or_create") /\ loc[1].found = None) =>
        LET shop == SubmittedShop(1)
            before == call[1].pre["shop"]
            assigned == NextId(before)
        IN  /\ OsmIdRows(call[1].pre, shop.osm_id) = {}
            /\ ShopDump(shop).id = None
            /\ db["shop"] = Append(before, [ShopDump(shop) EXCEPT !.id = assigned])
            /\ \A t \in TableNames \ {"shop"} : db[t] = call[1].pre[t]
            /\ ret[1] = Some([shop EXCEPT !.id = Some(assigned)])
            /\ ret[1][1].id[1] \in Nat
            /\ ToStr(ret[1][1].id[1]) = ToStr(assigned)

\* A way was submitted to a store whose only row is a node: it was inserted as row 2 and
\* returned with id 2.
C26_Witness ==
    /\ Done(1, "shop_get_or_create")
    /\ loc[1].found = None
    /\ call[1].args.type = "way"
    /\ Len(call[1].pre["shop"]) = 1
    /\ Len(db["shop"]) = 2
    /\ db["shop"][2].id = 2
    /\ ret[1][1].id = Some(2)
    /\ ret[1][1].address = Some(call[1].args.place.address)

\* -- the table selected when a store call is issued
\* C27: a store call is issued against the table its operation intends whenever no other
\* request has called use_table on the store object since the operation's own use_table, so
\* an operation that runs without interleaving issues every call against the intended
\* table; a request that interleaves on a shared store object can change the selection, and
\* only then is a call issued against another table.
C27_CallsUseSelectedTable ==
    \A p \in Procs :
        call[p].op = "store_calls" =>
            /\ Len(loc[p].issued) = loc[p].index
            /\ \A n \in DOMAIN loc[p].issued :
                loc[p].issued[n].own => loc[p].issued[n].table = call[p].args.plan[n].table
            /\ (\A q \in Procs \ {p} : call[q].op = "none") =>
                \A n \in DOMAIN loc[p].issued : loc[p].issued[n].own
            /\ pc[p] = "done" => loc[p].index = Len(call[p].args.plan)

\* A get_or_create of a receipt issued its upsert against the table another request had
\* selected in between.
C27_Witness ==
    /\ Done(1, "store_calls")
    /\ call[1].args.name = "receipt_get_or_create"
    /\ \E n \in DOMAIN loc[1].issued :
        /\ call[1].args.plan[n].table = "receipt"
        /\ loc[1].issued[n].table = "user_identity"
        /\ ~loc[1].issued[n].own
    /\ call[2].op = "store_calls"

\* A request that ran alone issued every call against the intended table.
C27_WitnessAlone ==
    /\ Done(1, "store_calls")
    /\ call[2].op = "none"
    /\ Len(loc[1].issued) = 5
    /\ \A n \in DOMAIN loc[1].issued : loc[1].issued[n].table = call[1].args.plan[n].table

\* -- every identity has its own user
\* Rows of the user table with the id.
UserRows(store, id) == MatchIdx(store["user"], [id |-> id])

\* No store call has failed so far (while at most two calls were started, the current and
\* the previous call are all the calls there were).
NothingFailed == ncalls <= 2 /\ pc[1] # "failed" /\ (prev.op # "none" => prev.status = "done")

\* C28: from an empty store, after any sequence of sequential get_or_create_user_by_identity
\* calls, every UserIdentity row names exactly one stored User and no two identity rows
\* name the same user; a call that creates an identity links it to the user it has just
\* inserted, never to a user stored before the call; and while no store call has failed,
\* the completed calls left as many users as identities.
C28_EachIdentityOwnUser ==
    /\ \A i \in DOMAIN db["user_identity"] : Cardinality(UserRows(db, db["user_identity"][i].user_id)) = 1
    /\ \A i, j \in DOMAIN db["user_identity"] :
        db["user_identity"][i].user_id = db["user_identity"][j].user_id => i = j
    /\ (Done(1, "get_or_create_user_by_identity") /\ loc[1].new_user # None) =>
        /\ UserRows(call[1].pre, UuidStr(loc[1].new_user[1].id)) = {}
        /\ Cardinality(UserRows(db, UuidStr(loc[1].new_user[1].id))) = 1
        /\ db["user_identity"][Len(db["user_identity"])] =
               [id |-> call[1].args.id, provider |-> call[1].args.provider,
                user_id |-> UuidStr(loc[1].new_user[1].id)]
    /\ (NothingFailed /\ Idle(1)) => Len(db["user"]) = Len(db["user_identity"])

\* Two identities signed in with the same e-mail address and name: two users.
C28_Witness ==
    /\ Done(1, "get_or_create_user_by_identity")
    /\ PrevDone("get_or_create_user_by_identity")
    /\ NothingFailed
    /\ prev.args.email = call[1].args.email
    /\ prev.args.email # None
    /\ prev.args.id # call[1].args.id
    /\ Len(db["user"]) = 2
    /\ Len(db["user_identity"]) = 2
    /\ db["user_identity"][1].user_id # db["user_identity"][2].user_id
    /\ db["user"][1].email = db["user"][2].email

\* -- get_or_create overwrites what add_shop_id stored
\* C29: get_or_create never reads the stored receipt: once it has upserted, the row of the
\* receipt is the incoming receipt with the shop_id resolved in this call (the incoming
\* shop_id when no shop matches), whatever row was stored before; a shop_id that add_shop_id
\* had persisted for the receipt id is replaced, by null when the incoming receipt has none
\* and no shop resolves.
C29_UpsertIgnoresStoredReceipt ==
    (call[1].op = "receipt_get_or_create" /\ pc[1] \in {"done", "goc_url"}) =>
        LET incoming == Submitted(1)
            shops == PlaceShops(db, incoming)
            receipt == loc[1].receipt
        IN  /\ \A f \in DOMAIN incoming \ {"purchases", "shop_id"} : receipt[f] = incoming[f]
            /\ IF shops = {} THEN receipt.shop_id = incoming.shop_id
               ELSE \E s \in shops : receipt.shop_id = Some(db["shop"][s].id)
            /\ Cardinality(ReceiptRows(db, incoming.id)) = 1
            /\ \A i \in ReceiptRows(db, incoming.id) : db["receipt"][i] = ReceiptDump(receipt)

\* add_shop_id stored shop_id 2 for r1; r1 was then submitted again without a shop_id at a
\* place no shop has: the stored shop_id is null.
C29_Witness ==
    /\ Done(1, "receipt_get_or_create")
    /\ PrevDone("add_shop_id")
    /\ prev.args.id = call[1].args.id
    /\ prev.args.shop_id = 2
    /\ \E i \in ReceiptRows(call[1].pre, call[1].args.id) : call[1].pre["receipt"][i].shop_id = Some(2)
    /\ call[1].args.shop_id = None
    /\ PlaceShops(db, Submitted(1)) = {}
    /\ \E i \in ReceiptRows(db, call[1].args.id) : db["receipt"][i].shop_id = None

\* -- shop resolution by place
\* The shop rows whose address, company_id and country_code all equal the receipt's.
ExactPlaceRows(store, receipt) ==
    {i \in DOMAIN store["shop"] :
        /\ store["shop"][i].address = Some(receipt.shop_address)
        /\ store["shop"][i].company_id = Some(receipt.company_id)
        /\ store["shop"][i].country_code = Some(receipt.country_code)}

\* A shop row with a null address, company_id or country_code.
NullPlace(row) == row.address = None \/ row.company_id = None \/ row.country_code = None

\* Request 1 is a submission past its shop lookup.
Resolving == call[1].op = "receipt_get_or_create" /\ pc[1] \in {"done", "goc_upsert", "goc_url"}

\* The previous call was a shop request answered with a stored row of another address.
PrevDeduplicated ==
    /\ PrevDone("shop_get_or_create")
    /\ prev.post = prev.pre
    /\ prev.ret[1].address # Some(prev.args.place.address)

\* C30: a submission resolves to a shop exactly when a stored shop row equals the receipt
\* on all three of address, company_id and country_code, osm_id playing no part: the
\* resolved row is such a row, never one with a null address, company_id or country_code,
\* and a receipt at the place of a shop request that was deduplicated by osm_id onto a row
\* with another address stays unresolved.
C30_ResolvesOnExactPlaceOnly ==
    Resolving =>
        LET receipt == loc[1].receipt
            rows == ExactPlaceRows(db, Submitted(1))
        IN  /\ (receipt.shop_id # None) = (rows # {})
            /\ receipt.shop_id # None =>
                   \E i \in rows : /\ receipt.shop_id = Some(db["shop"][i].id)
                                   /\ ~NullPlace(db["shop"][i])
            /\ (PrevDeduplicated /\ call[1].args.place = prev.args.place /\ rows = {}) =>
                   receipt.shop_id = None

\* The shop request at a2 was answered with the row of osm_id 1:0 stored at a1; the receipt
\* at a2 that follows has no shop.
C30_Witness ==
    /\ Done(1, "receipt_get_or_create")
    /\ PrevDeduplicated
    /\ call[1].args.place = prev.args.place
    /\ prev.ret[1].address = Some("a1")
    /\ \E i \in DOMAIN db["shop"] : db["shop"][i].osm_id = prev.ret[1].osm_id
    /\ ret[1][1].shop_id = None

\* A legacy row lacks only its address; the receipt of its company and country has no shop.
C30_WitnessLegacy ==
    /\ Done(1, "receipt_get_or_create")
    /\ \E i \in DOMAIN db["shop"] :
        /\ db["shop"][i].address = None
        /\ db["shop"][i].company_id = Some(call[1].args.place.company_id)
        /\ db["shop"][i].country_code = Some(call[1].args.place.country_code)
    /\ ret[1][1].shop_id = None

====
